---- MODULE Spec2Model ----
(***************************************************************************)
(* SSHarbor: the SSH command builder, the input validators, the alias      *)
(* generator and the ~/.ssh/config stanza upsert (core/ssh.ts,             *)
(* core/security.ts), with the connect commands that call them.            *)
(*                                                                         *)
(* A JavaScript string is a sequence of tokens.  A token is one character  *)
(* ("a", ".", " ", "\n") or an atom standing for a fixed run of            *)
(* characters that the other tokens cannot spell ("Host ", "home",         *)
(* MARKER), so substring search and regular-expression matching on token   *)
(* sequences agree with the same operations on the strings they stand for. *)
(***************************************************************************)
EXTENDS Integers, Sequences, FiniteSets, TLC

VARIABLES
  sshConfig,    \* content of ~/.ssh/config (token sequence; <<>> = absent/empty)
  prevConfig,   \* content of ~/.ssh/config before the last ensureSSHConfigEntry
  lastInfo,     \* argument of the last ensureSSHConfigEntry (NoInfo before any)
  upserted,     \* aliases returned by ensureSSHConfigEntry so far
  nCalls,       \* number of ensureSSHConfigEntry calls made
  cmdInfo,      \* SSHConnectionInfo handed to the command builders
  keyExists,    \* fs.existsSync(expandPath(info.identityFile))
  cmdResult,    \* outcome of buildSSHCommand
  cmdDisplay,   \* outcome of buildSSHCommandDisplay
  cmdPc,        \* position of the command-builder caller
  aliasArgs,    \* two (fleetName, name) pairs handed to generateSSHConfigAlias
  aliasOut,     \* the two aliases returned
  harbor,       \* parsed harbor.json: the defaults and the fleets with their vessels
  recent,       \* recent.json: the recent connections, newest first
  vesselPaths,  \* vessel-paths.json: vessel key -> saved folder paths
  statusBar,    \* StatusBarManager.lastConnection (<<>> = null, else <<connection>>)
  written,      \* infos for which ensureSSHConfigEntry wrote ~/.ssh/config
  terminalSent, \* command lines sent to a terminal by connectTerminal
  nConnects,    \* number of connect commands run
  secFn,        \* the function of core/security.ts called last ("none" before any)
  secArg,       \* its argument
  secOut,       \* its result
  cascadeBy,    \* who resolved a vessel last: "VesselItem", "quickConnect" or "none"
  cascadeIn,    \* the vessel, the fleet defaults, the harbor defaults and the settings
  cascadeOut,   \* the connection info resolved from them
  maxRecent,    \* settings.maxRecentConnections of ssharbor's configuration
  configFile,   \* harbor.json on disk: absent, unparsable text or a config
  configEvents, \* number of times _onConfigChange has fired
  pendingWatch, \* a change of harbor.json the file watcher has still to report
  lastOp,       \* the last ConfigManager call: its name, arguments and the state before it
  nOps,         \* number of ConfigManager calls made
  procs         \* the connect commands in flight: their position and what they read

vars == <<sshConfig, prevConfig, lastInfo, upserted, nCalls,
          cmdInfo, keyExists, cmdResult, cmdDisplay, cmdPc,
          aliasArgs, aliasOut,
          harbor, recent, vesselPaths, statusBar, written, terminalSent, nConnects,
          secFn, secArg, secOut, cascadeBy, cascadeIn, cascadeOut,
          maxRecent, configFile, configEvents, pendingWatch, lastOp, nOps, procs>>

sshVars == <<sshConfig, prevConfig, lastInfo, upserted, nCalls>>
cmdVars == <<cmdInfo, keyExists, cmdResult, cmdDisplay, cmdPc>>
aliasVars == <<aliasArgs, aliasOut>>
connectVars == <<harbor, recent, vesselPaths, statusBar, written, terminalSent, nConnects>>
secVars == <<secFn, secArg, secOut>>
cascadeVars == <<cascadeBy, cascadeIn, cascadeOut>>
storeVars == <<maxRecent, configFile, configEvents, pendingWatch, lastOp, nOps>>
procVars == <<procs>>

-----------------------------------------------------------------------------
(* Bounds                                                                  *)

MaxChunks == 3      \* chunks of the initial ~/.ssh/config text
MaxCalls == 2       \* ensureSSHConfigEntry calls per behaviour
MaxNameLen == 2     \* tokens of a fleet or vessel name
MaxConnects == 2    \* connect commands per behaviour
MaxArgLen == 3      \* tokens of a host, a name or a key file name given to a validator
MaxInputLen == 5    \* tokens of a quick-connect input
MaxOps == 3         \* ConfigManager calls per behaviour
MaxProcs == 2       \* connect commands in flight at once

-----------------------------------------------------------------------------
(* Strings                                                                 *)

NL == "\n"
CR == "\r"
\* the grave accent, a character a string of the model cannot hold as itself
BACKTICK == "grave"
SP == " "

\* "A49" stands for 'A'.repeat(49)
Letters == {"a", "b", "h", "k", "u", "x", "home", "me", "ssh", "etc", "root", "SSHarbor",
            "A49", "Users", "passwd", "tmp", "key"}
Digits == {"0", "1", "2", "3", "4", "5", "6", "7", "8", "9", "22", "2222"}
Alnum == Letters \cup Digits

\* number of characters a token stands for
TokLen(c) ==
  CASE c = "home" -> 4
    [] c = "me" -> 2
    [] c = "ssh" -> 3
    [] c = "etc" -> 3
    [] c = "root" -> 4
    [] c = "SSHarbor" -> 8
    [] c = "A49" -> 49
    [] c = "Users" -> 5
    [] c = "passwd" -> 6
    [] c = "tmp" -> 3
    [] c = "key" -> 3
    [] c = "22" -> 2
    [] c = "2222" -> 4
    [] OTHER -> 1

RECURSIVE StrLen(_)
StrLen(s) == IF s = <<>> THEN 0 ELSE TokLen(Head(s)) + StrLen(Tail(s))

\* s.startsWith(p, i): p occurs in s at position i (1-based)
MatchAt(s, i, p) ==
  /\ i >= 1
  /\ i + Len(p) - 1 <= Len(s)
  /\ \A j \in 1..Len(p) : s[i + j - 1] = p[j]

startsWith(s, p) == MatchAt(s, 1, p)

\* s.includes(p)
includes(s, p) == \E i \in 1..(Len(s) + 1) : MatchAt(s, i, p)

\* s.indexOf(p), 0 when absent
indexOf(s, p) ==
  IF includes(s, p)
  THEN CHOOSE i \in 1..(Len(s) + 1) :
         MatchAt(s, i, p) /\ \A j \in 1..(i - 1) : ~MatchAt(s, j, p)
  ELSE 0

\* parts.join(sep)
RECURSIVE join(_, _)
join(parts, sep) ==
  IF parts = <<>> THEN <<>>
  ELSE IF Len(parts) = 1 THEN parts[1]
  ELSE parts[1] \o sep \o join(Tail(parts), sep)

\* String(n) for an integer n: its decimal digits as one token
String(n) == <<ToString(n)>>

-----------------------------------------------------------------------------
(* core/security.ts                                                        *)

isValidHostAnyLast(host) ==
  /\ host # <<>>
  /\ \A i \in 1..Len(host) : host[i] \in Alnum \cup {".", "-"}
  /\ host[1] \in Alnum

\* /^[a-zA-Z0-9][a-zA-Z0-9.-]*[a-zA-Z0-9]$|^[a-zA-Z0-9]$/
isValidHost(host) ==
  /\ host # <<>>
  /\ \A i \in 1..Len(host) : host[i] \in Alnum \cup {".", "-"}
  /\ host[1] \in Alnum
  /\ host[Len(host)] \in Alnum

\* /^[a-zA-Z_][a-zA-Z0-9_-]*$/
isValidUser(user) ==
  /\ user # <<>>
  /\ user[1] \in Letters \cup {"_"}
  /\ \A i \in 2..Len(user) : user[i] \in Alnum \cup {"_", "-"}

\* JavaScript values.  A number is held as twice its value, so that the
\* integers and the halves between them are numbers of the model.
Num(n) == [type |-> "number", nan |-> FALSE, halves |-> 2 * n]
Halves(h) == [type |-> "number", nan |-> FALSE, halves |-> h]
NaN == [type |-> "number", nan |-> TRUE, halves |-> 0]
Str(s) == [type |-> "string", str |-> s]
Undefined == [type |-> "undefined"]

\* the value of a run of decimal digits
DigitVal(c) ==
  CASE c = "0" -> 0 [] c = "1" -> 1 [] c = "2" -> 2 [] c = "3" -> 3
    [] c = "4" -> 4 [] c = "5" -> 5 [] c = "6" -> 6 [] c = "7" -> 7
    [] c = "8" -> 8 [] c = "9" -> 9 [] c = "22" -> 22 [] c = "2222" -> 2222

RECURSIVE Pow10(_)
Pow10(k) == IF k = 0 THEN 1 ELSE 10 * Pow10(k - 1)

\* the characters parseInt and String.prototype.trim skip
WhiteSpace == {SP, NL, CR, "\t"}

RECURSIVE trimStart(_)
trimStart(s) ==
  IF s = <<>> THEN <<>>
  ELSE IF Head(s) \in WhiteSpace THEN trimStart(Tail(s))
  ELSE s

RECURSIVE trimEnd(_)
trimEnd(s) ==
  IF s = <<>> THEN <<>>
  ELSE IF s[Len(s)] \in WhiteSpace THEN trimEnd(SubSeq(s, 1, Len(s) - 1))
  ELSE s

\* input.trim()
trim(s) == trimStart(trimEnd(s))

\* the longest prefix of s made of decimal digits
RECURSIVE digitsPrefix(_)
digitsPrefix(s) ==
  IF s = <<>> \/ Head(s) \notin Digits THEN <<>>
  ELSE <<Head(s)>> \o digitsPrefix(Tail(s))

RECURSIVE decimalValue(_, _)
decimalValue(d, acc) ==
  IF d = <<>> THEN acc
  ELSE decimalValue(Tail(d), acc * Pow10(TokLen(Head(d))) + DigitVal(Head(d)))

\* parseInt(s, 10): leading white space is skipped, a sign is read, then
\* the longest run of digits; what follows the digits is ignored, and the
\* result is NaN when there is no digit
parseInt(s) ==
  LET t == trimStart(s)
      signed == t # <<>> /\ Head(t) \in {"+", "-"}
      d == digitsPrefix(IF signed THEN Tail(t) ELSE t)
  IN IF d = <<>> THEN NaN
     ELSE Num(IF signed /\ Head(t) = "-" THEN 0 - decimalValue(d, 0)
              ELSE decimalValue(d, 0))

\* port: a number or a string
isValidPort(port) ==
  LET p == IF port.type = "string" THEN parseInt(port.str) ELSE port IN
  ~p.nan /\ p.halves > 0 /\ p.halves <= 2 * 65535

\* os.homedir()
homedir == <<"/", "home", "/", "me">>

\* the segments of a path between its "/" separators (p.split('/'))
RECURSIVE splitSlash(_, _)
splitSlash(p, cur) ==
  IF p = <<>> THEN <<cur>>
  ELSE IF Head(p) = "/" THEN <<cur>> \o splitSlash(Tail(p), <<>>)
  ELSE splitSlash(Tail(p), Append(cur, Head(p)))

\* the normalisation of path.resolve: "" and "." segments are dropped,
\* ".." removes the segment before it
RECURSIVE normalizeSegments(_, _)
normalizeSegments(segs, acc) ==
  IF segs = <<>> THEN acc
  ELSE LET s == Head(segs) IN
       IF s = <<>> \/ s = <<".">> THEN normalizeSegments(Tail(segs), acc)
       ELSE IF s = <<".", ".">>
            THEN normalizeSegments(Tail(segs),
                   IF acc = <<>> THEN acc ELSE SubSeq(acc, 1, Len(acc) - 1))
            ELSE normalizeSegments(Tail(segs), Append(acc, s))

\* path.resolve(p) for an absolute POSIX path p
resolve(p) ==
  <<"/">> \o join(normalizeSegments(splitSlash(p, <<>>), <<>>), <<"/">>)

\* filePath.replace(/^~/, os.homedir()) when filePath starts with "~"
expandPath(filePath) ==
  IF startsWith(filePath, <<"~">>) THEN homedir \o Tail(filePath) ELSE filePath

isValidIdentityFileNoHyphen(filePath) ==
  IF filePath = <<>> THEN FALSE
  ELSE IF ~(/\ filePath[1] \in {"~", "/"}
            /\ \A i \in 2..Len(filePath) :
                 filePath[i] \in Alnum \cup {".", "_", "/"})
  THEN FALSE
  ELSE LET resolvedPath == resolve(expandPath(filePath))
           sshDir == homedir \o <<"/", ".", "ssh">>
           isInSshDir == startsWith(resolvedPath, sshDir \o <<"/">>)
                           \/ resolvedPath = sshDir
           isInHomeDir == startsWith(resolvedPath, homedir \o <<"/">>)
           isSafePattern ==
             \/ startsWith(filePath, <<"~", "/", ".", "ssh", "/">>)
             \/ startsWith(filePath, <<"/", "home", "/">>)
             \/ startsWith(filePath, <<"/", "Users", "/">>)
       IN IF includes(filePath, <<".", ".">>) THEN FALSE
          ELSE isInSshDir \/ (isInHomeDir /\ isSafePattern)

isValidIdentityFileNoTraversalCheck(filePath) ==
  IF filePath = <<>> THEN FALSE
  ELSE IF ~(/\ filePath[1] \in {"~", "/"}
            /\ \A i \in 2..Len(filePath) :
                 filePath[i] \in Alnum \cup {".", "_", "/", "-"})
  THEN FALSE
  ELSE LET resolvedPath == resolve(expandPath(filePath))
           sshDir == homedir \o <<"/", ".", "ssh">>
           isInSshDir == startsWith(resolvedPath, sshDir \o <<"/">>)
                           \/ resolvedPath = sshDir
           isInHomeDir == startsWith(resolvedPath, homedir \o <<"/">>)
           isSafePattern ==
             \/ startsWith(filePath, <<"~", "/", ".", "ssh", "/">>)
             \/ startsWith(filePath, <<"/", "home", "/">>)
             \/ startsWith(filePath, <<"/", "Users", "/">>)
       IN IF FALSE THEN FALSE
          ELSE isInSshDir \/ (isInHomeDir /\ isSafePattern)

isValidIdentityFile(filePath) ==
  IF filePath = <<>> THEN FALSE
  ELSE IF ~(/\ filePath[1] \in {"~", "/"}
            /\ \A i \in 2..Len(filePath) :
                 filePath[i] \in Alnum \cup {".", "_", "/", "-"})
  THEN FALSE
  ELSE LET resolvedPath == resolve(expandPath(filePath))
           sshDir == homedir \o <<"/", ".", "ssh">>
           isInSshDir == startsWith(resolvedPath, sshDir \o <<"/">>)
                           \/ resolvedPath = sshDir
           isInHomeDir == startsWith(resolvedPath, homedir \o <<"/">>)
           isSafePattern ==
             \/ startsWith(filePath, <<"~", "/", ".", "ssh", "/">>)
             \/ startsWith(filePath, <<"/", "home", "/">>)
             \/ startsWith(filePath, <<"/", "Users", "/">>)
       IN IF includes(filePath, <<".", ".">>) THEN FALSE
          ELSE isInSshDir \/ (isInHomeDir /\ isSafePattern)

\* the text of `Invalid <field>: ${value}`
ErrorMessage(field, value) == <<"Invalid ", field, ": ">> \o value

validateConnectionInfoPortFirst(info) ==
  IF ~isValidHost(info.host)
  THEN [valid |-> FALSE, error |-> ErrorMessage("host", info.host)]
  ELSE IF ~isValidPort(Num(info.port))
  THEN [valid |-> FALSE, error |-> ErrorMessage("port", String(info.port))]
  ELSE IF ~isValidUser(info.user)
  THEN [valid |-> FALSE, error |-> ErrorMessage("user", info.user)]
  ELSE IF info.identityFile # <<>> /\ ~isValidIdentityFile(info.identityFile)
  THEN [valid |-> FALSE,
        error |-> ErrorMessage("identity file path", info.identityFile)]
  ELSE [valid |-> TRUE, error |-> <<>>]

validateConnectionInfo(info) ==
  IF ~isValidHost(info.host)
  THEN [valid |-> FALSE, error |-> ErrorMessage("host", info.host)]
  ELSE IF ~isValidUser(info.user)
  THEN [valid |-> FALSE, error |-> ErrorMessage("user", info.user)]
  ELSE IF ~isValidPort(Num(info.port))
  THEN [valid |-> FALSE, error |-> ErrorMessage("port", String(info.port))]
  ELSE IF info.identityFile # <<>> /\ ~isValidIdentityFile(info.identityFile)
  THEN [valid |-> FALSE,
        error |-> ErrorMessage("identity file path", info.identityFile)]
  ELSE [valid |-> TRUE, error |-> <<>>]

\* the characters sanitize removes: ; & | ` $ ( ) { } [ ] < > \ ' " ! # \n \r
Dangerous ==
  {";", "&", "|", BACKTICK, "$", "(", ")", "{", "}", "[", "]", "<", ">", "\\", "'",
   "\"", "!", "#", NL, CR}

\* the replacement without its g flag: the first match only
sanitizeFirstOnly(input) ==
  IF \E i \in 1..Len(input) : input[i] \in Dangerous
  THEN LET i == CHOOSE k \in 1..Len(input) :
                  /\ input[k] \in Dangerous
                  /\ \A j \in 1..(k - 1) : input[j] \notin Dangerous
       IN SubSeq(input, 1, i - 1) \o SubSeq(input, i + 1, Len(input))
  ELSE input

RECURSIVE sanitize(_)
sanitize(input) ==
  IF input = <<>> THEN <<>>
  ELSE (IF Head(input) \in Dangerous THEN <<>> ELSE <<Head(input)>>)
         \o sanitize(Tail(input))

\* sanitize on any JavaScript value: '' when it is not a string
sanitizeValue(input) ==
  IF input.type # "string" THEN <<>> ELSE sanitize(input.str)

NoMatch == [matched |-> FALSE, user |-> <<>>, host |-> <<>>, portStr |-> <<>>]

\* ([^:]+)(?::(\d+))?$ on the text r: the host runs to the first ":" and
\* a port of one digit or more runs from there to the end
matchHostPort(user, r) ==
  LET c == indexOf(r, <<":">>) IN
  IF c = 0
  THEN IF r = <<>> THEN NoMatch
       ELSE [matched |-> TRUE, user |-> user, host |-> r, portStr |-> <<>>]
  ELSE LET host == SubSeq(r, 1, c - 1)
           portStr == SubSeq(r, c + 1, Len(r))
       IN IF host # <<>> /\ portStr # <<>>
               /\ \A i \in 1..Len(portStr) : portStr[i] \in Digits
          THEN [matched |-> TRUE, user |-> user, host |-> host, portStr |-> portStr]
          ELSE NoMatch

quickConnectMatchNoUserGroup(trimmed) == matchHostPort(<<>>, trimmed)

\* trimmed.match(/^(?:([^@]+)@)?([^:]+)(?::(\d+))?$/): the user group is
\* tried first, on the text before the first "@"; when the rest does not
\* match after it, the group is skipped and the host starts the text.
\* A group that did not take part is undefined: <<>>.
quickConnectMatch(trimmed) ==
  LET a == indexOf(trimmed, <<"@">>)
      withUser == IF a > 1
                  THEN matchHostPort(SubSeq(trimmed, 1, a - 1),
                                     SubSeq(trimmed, a + 1, Len(trimmed)))
                  ELSE NoMatch
  IN IF withUser.matched THEN withUser ELSE matchHostPort(<<>>, trimmed)

Null == [null |-> TRUE, user |-> <<>>, host |-> <<>>, port |-> Undefined]

parseQuickConnectNoUserCheck(input) ==
  LET trimmed == sanitize(trim(input)) IN
  IF trimmed = <<>> THEN Null
  ELSE LET match == quickConnectMatch(trimmed) IN
       IF ~match.matched THEN Null
       ELSE IF ~isValidHost(match.host) THEN Null
       ELSE LET port == IF match.portStr # <<>> THEN parseInt(match.portStr)
                        ELSE Undefined
            IN IF port # Undefined /\ ~isValidPort(port) THEN Null
               ELSE [null |-> FALSE, user |-> match.user, host |-> match.host,
                     port |-> port]

\* the result: Null, or the user ('' for undefined), the host and the port
parseQuickConnect(input) ==
  LET trimmed == sanitize(trim(input)) IN
  IF trimmed = <<>> THEN Null
  ELSE LET match == quickConnectMatch(trimmed) IN
       IF ~match.matched THEN Null
       ELSE IF ~isValidHost(match.host) THEN Null
       ELSE IF match.user # <<>> /\ ~isValidUser(match.user) THEN Null
       ELSE LET port == IF match.portStr # <<>> THEN parseInt(match.portStr)
                        ELSE Undefined
            IN IF port # Undefined /\ ~isValidPort(port) THEN Null
               ELSE [null |-> FALSE, user |-> match.user, host |-> match.host,
                     port |-> port]

\* maximum length of a fleet or vessel name
MaxNameChars == 50

isValidFleetNameNoLimit(name) ==
  /\ name # <<>>
  /\ name[1] \in Alnum
  /\ \A i \in 2..Len(name) : name[i] \in Alnum \cup {" ", "_", "-"}

\* /^[a-zA-Z0-9][a-zA-Z0-9 _-]*$/.test(name) && name.length <= 50
isValidFleetName(name) ==
  /\ name # <<>>
  /\ name[1] \in Alnum
  /\ \A i \in 2..Len(name) : name[i] \in Alnum \cup {" ", "_", "-"}
  /\ StrLen(name) <= MaxNameChars

\* /^[a-zA-Z0-9][a-zA-Z0-9 _.-]*$/.test(name) && name.length <= 50
isValidVesselName(name) ==
  /\ name # <<>>
  /\ name[1] \in Alnum
  /\ \A i \in 2..Len(name) : name[i] \in Alnum \cup {" ", "_", ".", "-"}
  /\ StrLen(name) <= MaxNameChars

-----------------------------------------------------------------------------
(* core/ssh.ts: the command builders                                       *)

Threw(msg) == [threw |-> TRUE, error |-> msg, value |-> <<>>]
Returned(v) == [threw |-> FALSE, error |-> <<>>, value |-> v]

portAndTargetAlwaysPort(info) ==
  <<<<"-p">>, String(info.port)>> \o <<info.user \o <<"@">> \o info.host>>

\* the parts pushed after 'ssh' and the identity file: -p <port> unless the
\* port is 22, then user@host
portAndTarget(info) ==
  (IF info.port # 22 THEN <<<<"-p">>, String(info.port)>> ELSE <<>>)
    \o <<info.user \o <<"@">> \o info.host>>

buildSSHCommandUnchecked(info, exists) ==
  Returned(join(<<<<"ssh">>>>
                  \o (IF info.identityFile # <<>> /\ exists
                      THEN <<<<"-i">>, expandPath(info.identityFile)>>
                      ELSE <<>>)
                  \o portAndTarget(info),
                <<SP>>))

buildSSHCommandFailsOnMissingKey(info, exists) ==
  LET validation == validateConnectionInfo(info) IN
  IF ~validation.valid THEN Threw(validation.error)
  ELSE IF info.identityFile # <<>> /\ ~exists
  THEN Threw(<<"Identity file not found">>)
  ELSE buildSSHCommandUnchecked(info, exists)

\* exists: the result of fs.existsSync(keyPath)
buildSSHCommand(info, exists) ==
  LET validation == validateConnectionInfo(info) IN
  IF ~validation.valid THEN Threw(validation.error)
  ELSE Returned(join(<<<<"ssh">>>>
                  \o (IF info.identityFile # <<>> /\ exists
                      THEN <<<<"-i">>, expandPath(info.identityFile)>>
                      ELSE <<>>)
                  \o portAndTarget(info),
                <<SP>>))

buildSSHCommandDisplay(info) ==
  join(<<<<"ssh">>>>
         \o (IF info.identityFile # <<>>
             THEN <<<<"-i">>, info.identityFile>>
             ELSE <<>>)
         \o portAndTarget(info),
       <<SP>>)

-----------------------------------------------------------------------------
(* core/ssh.ts: the alias and the ~/.ssh/config entry                      *)

RECURSIVE replaceNonAlnumDropped(_)
replaceNonAlnumDropped(s) ==
  IF s = <<>> THEN <<>>
  ELSE (IF Head(s) \in Alnum THEN <<Head(s)>> ELSE <<>>)
         \o replaceNonAlnumDropped(Tail(s))

\* s.replace(/[^a-zA-Z0-9]/g, '_')
RECURSIVE replaceNonAlnum(_)
replaceNonAlnum(s) ==
  IF s = <<>> THEN <<>>
  ELSE <<IF Head(s) \in Alnum THEN Head(s) ELSE "_">> \o replaceNonAlnum(Tail(s))

aliasOf(fleetName, name) ==
  <<"SSHarbor", "_">> \o replaceNonAlnum(fleetName) \o <<"_">> \o replaceNonAlnum(name)

generateSSHConfigAlias(info) == aliasOf(info.fleetName, info.name)

MARKER == "# === SSHarbor Managed Entries ==="

\* the characters at which ^ and $ of a multiline RegExp match
LineTerminators == {NL, CR}

\* `Host ${alias}`
hostLine(alias) == <<"Host ">> \o alias

\* entryLines.join('\n')
newEntryOf(info) ==
  join(<<hostLine(generateSSHConfigAlias(info)),
         <<SP, SP, "HostName ">> \o info.host,
         <<SP, SP, "User ">> \o info.user>>
         \o (IF info.port # 22
             THEN <<<<SP, SP, "Port ">> \o String(info.port)>> ELSE <<>>)
         \o (IF info.identityFile # <<>>
             THEN <<<<SP, SP, "IdentityFile ">> \o info.identityFile>> ELSE <<>>)
         \o << <<>> >>,
       <<NL>>)

\* new RegExp(`^Host ${alias}$`, 'm').test(text)
entryRegexTest(text, alias) ==
  \E i \in 1..Len(text) :
    /\ MatchAt(text, i, hostLine(alias))
    /\ (i = 1 \/ text[i - 1] \in LineTerminators)
    /\ (i + Len(hostLine(alias)) > Len(text)
          \/ text[i + Len(hostLine(alias))] \in LineTerminators)

\* the position after the longest run of (?:  [^\n]+\n) that starts at j
RECURSIVE bodyEnd(_, _)
bodyEnd(text, j) ==
  IF /\ j + 1 <= Len(text)
     /\ text[j] = SP
     /\ text[j + 1] = SP
     /\ \E k \in (j + 3)..Len(text) : text[k] = NL
     /\ LET k == CHOOSE k \in (j + 2)..Len(text) :
                   text[k] = NL /\ \A m \in (j + 2)..(k - 1) : text[m] # NL
        IN k >= j + 3
  THEN LET k == CHOOSE k \in (j + 2)..Len(text) :
                  text[k] = NL /\ \A m \in (j + 2)..(k - 1) : text[m] # NL
       IN bodyEnd(text, k + 1)
  ELSE j

\* the position after a match of \n?Host <alias>\n(?:  [^\n]+\n)* that
\* starts at i, 0 when there is none
removeMatchEnd(text, alias, i) ==
  LET pat == hostLine(alias) \o <<NL>> IN
  IF text[i] = NL /\ MatchAt(text, i + 1, pat)
  THEN bodyEnd(text, i + 1 + Len(pat))
  ELSE IF MatchAt(text, i, pat)
  THEN bodyEnd(text, i + Len(pat))
  ELSE 0

\* text.replace(new RegExp(`\\n?Host ${alias}\\n(?:  [^\\n]+\\n)*`, 'g'), '')
\* from position i on
RECURSIVE removeAll(_, _, _)
removeAll(text, alias, i) ==
  IF i > Len(text) THEN <<>>
  ELSE LET e == removeMatchEnd(text, alias, i) IN
       IF e # 0 THEN removeAll(text, alias, e)
       ELSE <<text[i]>> \o removeAll(text, alias, i + 1)

\* lines 136-141: the old entry is removed when the alias line is found
removeOldEntry(text, alias) ==
  IF entryRegexTest(text, alias) THEN removeAll(text, alias, 1) ELSE text

insertEntryAtEnd(existingConfig, newEntry) ==
  IF includes(existingConfig, <<MARKER>>)
  THEN existingConfig \o newEntry
  ELSE trimEnd(existingConfig) \o <<NL, NL, MARKER, NL>> \o newEntry

\* lines 147-153: the new entry goes after the first marker, or the marker
\* and the entry go after the right-trimmed text.  No token of the model
\* contains "$", so the replacement string has no special pattern.
insertEntry(existingConfig, newEntry) ==
  IF includes(existingConfig, <<MARKER>>)
  THEN LET i == indexOf(existingConfig, <<MARKER>>) IN
       SubSeq(existingConfig, 1, i - 1) \o <<MARKER, NL>> \o newEntry
         \o SubSeq(existingConfig, i + 1, Len(existingConfig))
  ELSE trimEnd(existingConfig) \o <<NL, NL, MARKER, NL>> \o newEntry

\* the text ensureSSHConfigEntry writes, from the text it read
upsertStanza(text, info) ==
  insertEntry(removeOldEntry(text, generateSSHConfigAlias(info)), newEntryOf(info))

-----------------------------------------------------------------------------
(* Values of the model                                                     *)

Info(fleetName, name, host, user, port, identityFile) ==
  [fleetName |-> fleetName, name |-> name, host |-> host, user |-> user,
   port |-> port, identityFile |-> identityFile]

NoInfo == Info(<<>>, <<>>, <<>>, <<>>, 0, <<>>)

NoResult == [threw |-> FALSE, error |-> <<>>, value |-> <<>>]

KeyPath == <<"~", "/", ".", "ssh", "/", "k">>

\* the connections whose entries are written in SpecSSHConfig: vessel a
\* of fleet a with and without a port and an identity file, and vessel b
UpsertInfos ==
  {Info(<<"a">>, <<"a">>, <<"h">>, <<"u">>, 22, <<>>),
   Info(<<"a">>, <<"a">>, <<"h">>, <<"u">>, 2222, KeyPath),
   Info(<<"a">>, <<"b">>, <<"h">>, <<"u">>, 22, <<>>)}

AliasA == aliasOf(<<"a">>, <<"a">>)

\* the pieces an initial ~/.ssh/config is made of: another line, an alias
\* line with and without its line end, an alias line ended by CR LF, an
\* indented line, the marker line and an empty line
Chunks ==
  {<<"x", NL>>,
   hostLine(AliasA) \o <<NL>>,
   hostLine(AliasA),
   hostLine(AliasA) \o <<CR, NL>>,
   <<SP, SP, "x", NL>>,
   <<MARKER, NL>>,
   <<NL>>}

RECURSIVE TextsOf(_)
TextsOf(n) ==
  IF n = 0 THEN {<<>>}
  ELSE LET shorter == TextsOf(n - 1) IN
       shorter \cup {t \o c : t \in shorter, c \in Chunks}

InitialTexts == TextsOf(MaxChunks)

-----------------------------------------------------------------------------
(* ensureSSHConfigEntry on the file                                        *)

SSHIdle ==
  /\ sshConfig = <<>>
  /\ prevConfig = <<>>
  /\ lastInfo = NoInfo
  /\ upserted = {}
  /\ nCalls = 0

CmdIdle ==
  /\ cmdInfo = NoInfo
  /\ keyExists = FALSE
  /\ cmdResult = NoResult
  /\ cmdDisplay = <<>>
  /\ cmdPc = "idle"

AliasIdle ==
  /\ aliasArgs = <<>>
  /\ aliasOut = <<>>

ConnectIdle ==
  /\ harbor = <<>>
  /\ recent = <<>>
  /\ vesselPaths = <<>>
  /\ statusBar = <<>>
  /\ written = {}
  /\ terminalSent = {}
  /\ nConnects = 0

SecIdle ==
  /\ secFn = "none"
  /\ secArg = <<>>
  /\ secOut = <<>>

CascadeIdle ==
  /\ cascadeBy = "none"
  /\ cascadeIn = <<>>
  /\ cascadeOut = <<>>

NoOp == [name |-> "none"]

StoreIdle ==
  /\ maxRecent = 0
  /\ configFile = [kind |-> "absent"]
  /\ configEvents = 0
  /\ pendingWatch = FALSE
  /\ lastOp = NoOp
  /\ nOps = 0

ProcIdle == procs = <<>>

\* readFileSync, the transformation and writeFileSync run without a
\* suspension point, so the call is one step
WriteEntry(info) ==
  /\ prevConfig' = sshConfig
  /\ sshConfig' = upsertStanza(sshConfig, info)
  /\ lastInfo' = info
  /\ upserted' = upserted \cup {generateSSHConfigAlias(info)}
  /\ nCalls' = nCalls + 1

EnsureSSHConfigEntry(info) ==
  /\ nCalls < MaxCalls
  /\ WriteEntry(info)

InitSSHConfig ==
  /\ sshConfig \in InitialTexts
  /\ prevConfig = sshConfig
  /\ lastInfo = NoInfo
  /\ upserted = {}
  /\ nCalls = 0
  /\ CmdIdle /\ AliasIdle /\ ConnectIdle /\ SecIdle /\ CascadeIdle /\ StoreIdle /\ ProcIdle

NextSSHConfig ==
  \E info \in UpsertInfos :
    EnsureSSHConfigEntry(info) /\ UNCHANGED <<cmdVars, aliasVars, connectVars, secVars, cascadeVars, storeVars, procVars>>

SpecSSHConfig == InitSSHConfig /\ [][NextSSHConfig]_vars

-----------------------------------------------------------------------------
(* Reading a config text by lines                                          *)

\* the lines of a text: the runs between its "\n" characters
RECURSIVE LinesFrom(_, _)
LinesFrom(text, cur) ==
  IF text = <<>> THEN <<cur>>
  ELSE IF Head(text) = NL THEN <<cur>> \o LinesFrom(Tail(text), <<>>)
  ELSE LinesFrom(Tail(text), Append(cur, Head(text)))

Lines(text) == LinesFrom(text, <<>>)

IsIndented(line) == Len(line) >= 2 /\ line[1] = SP /\ line[2] = SP

IsBlank(line) == \A i \in 1..Len(line) : line[i] \in WhiteSpace

\* the indices of the lines equal to `Host <alias>`
HostLineIndices(ls, alias) == {i \in 1..Len(ls) : ls[i] = hostLine(alias)}

\* the last line of the block that starts at line i: the indented lines
\* that follow line i without interruption
RECURSIVE BlockEnd(_, _)
BlockEnd(ls, i) ==
  IF i + 1 <= Len(ls) /\ IsIndented(ls[i + 1]) THEN BlockEnd(ls, i + 1) ELSE i

BlockAt(ls, i) == SubSeq(ls, i, BlockEnd(ls, i))

\* the lines of a stored stanza of the alias: its Host line and its body
StanzaLineIndices(ls, alias) ==
  {j \in 1..Len(ls) :
     \E i \in HostLineIndices(ls, alias) : i <= j /\ j <= BlockEnd(ls, i)}

\* the lines of ls at the indices in keep, in their order
RECURSIVE SelectLines(_, _, _)
SelectLines(ls, keep, i) ==
  IF i > Len(ls) THEN <<>>
  ELSE (IF i \in keep THEN <<ls[i]>> ELSE <<>>) \o SelectLines(ls, keep, i + 1)

\* sub occurs in ls as a subsequence (same elements, same relative order)
RECURSIVE IsSubsequence(_, _)
IsSubsequence(sub, ls) ==
  IF sub = <<>> THEN TRUE
  ELSE IF ls = <<>> THEN FALSE
  ELSE IF Head(sub) = Head(ls) THEN IsSubsequence(Tail(sub), Tail(ls))
  ELSE IsSubsequence(sub, Tail(ls))

\* the lines the entry of info is rendered as: Host, HostName, User,
\* Port unless 22, IdentityFile when set
RenderedLines(info) ==
  <<hostLine(generateSSHConfigAlias(info)),
    <<SP, SP, "HostName ">> \o info.host,
    <<SP, SP, "User ">> \o info.user>>
    \o (IF info.port = 22 THEN <<>>
        ELSE <<<<SP, SP, "Port ">> \o String(info.port)>>)
    \o (IF info.identityFile = <<>> THEN <<>>
        ELSE <<<<SP, SP, "IdentityFile ">> \o info.identityFile>>)

lastAlias == generateSSHConfigAlias(lastInfo)

\* the lines without the white space at their end
TrimmedLines(ls) == [i \in 1..Len(ls) |-> trimEnd(ls[i])]

\* the indices of the lines that contain the marker
MarkerLineIndices(ls) == {i \in 1..Len(ls) : includes(ls[i], <<MARKER>>)}

FirstOf(S) == CHOOSE i \in S : \A j \in S : i <= j

-----------------------------------------------------------------------------
(* Claims about the ~/.ssh/config entry (SpecSSHConfig)                    *)

\* C1: upsertStanza is idempotent: applying it again with the alias and
\* fields of the last call to the text that call produced changes nothing.
C1_Idempotent ==
  nCalls > 0 => upsertStanza(sshConfig, lastInfo) = sshConfig

\* C2: after any sequence of upserts from any config text, the text has at
\* most one line `Host <alias>` for every alias that was upserted.
C2_AtMostOneStanza ==
  \A alias \in upserted :
    Cardinality(HostLineIndices(Lines(sshConfig), alias)) <= 1

\* C3: every line of the existing text that is neither the old
\* `Host <alias>` line nor one of its indented body lines is a line of the
\* result, in the same relative order (blank lines and white space at the
\* end of a line are not compared).
C3_UnrelatedLinesKept ==
  nCalls > 0 =>
    LET old == Lines(prevConfig)
        keep == {i \in 1..Len(old) :
                   /\ i \notin StanzaLineIndices(old, lastAlias)
                   /\ trimEnd(old[i]) # hostLine(lastAlias)
                   /\ ~IsBlank(old[i])}
    IN IsSubsequence(TrimmedLines(SelectLines(old, keep, 1)),
                     TrimmedLines(Lines(sshConfig)))

\* C7: after an upsert every block that starts at a line `Host <alias>`
\* consists of exactly the lines rendered from the fields (HostName, User,
\* Port unless 22, IdentityFile when set), and there is such a block.
C7_BlockIsRendered ==
  nCalls > 0 =>
    LET ls == Lines(sshConfig) IN
    /\ HostLineIndices(ls, lastAlias) # {}
    /\ \A i \in HostLineIndices(ls, lastAlias) :
         BlockAt(ls, i) = RenderedLines(lastInfo)

\* C8: after an upsert the line after the first marker line is the
\* `Host <alias>` line of the alias just upserted, so that alias is the
\* first stanza of the managed region; when the text had no marker (after
\* the old entry was removed) the result is the right-trimmed text, one
\* blank line, the marker line and the entry.
C8_InsertedAfterMarker ==
  nCalls > 0 =>
    LET ls == Lines(sshConfig)
        m == FirstOf(MarkerLineIndices(ls))
        before == removeOldEntry(prevConfig, lastAlias)
    IN /\ MarkerLineIndices(ls) # {}
       /\ m + 1 <= Len(ls)
       /\ ls[m + 1] = hostLine(lastAlias)
       /\ ~includes(before, <<MARKER>>) =>
            /\ m >= 2
            /\ ls[m] = <<MARKER>>
            /\ ls[m - 1] = <<>>
            /\ SubSeq(ls, 1, m - 2) = Lines(trimEnd(before))
            /\ SubSeq(ls, m + 1, Len(ls)) = RenderedLines(lastInfo) \o << <<>> >>

\* C8 witness: a second alias was upserted into a text that had the marker
\* and the stanza of the first alias
C8_Witness ==
  /\ nCalls = 2
  /\ Cardinality(upserted) = 2
  /\ includes(prevConfig, <<MARKER>>)
  /\ HostLineIndices(Lines(sshConfig), lastAlias) # {}

-----------------------------------------------------------------------------
(* The command builders on one connection info (SpecCommand)               *)

CmdHosts == {<<"h">>, <<"h", ".", "a">>, <<>>, <<"-", "h">>, <<"h", ";", "x">>}
CmdUsers == {<<"u">>, <<"root">>, <<>>, <<"1", "u">>, <<"u", " ", "x">>}
CmdPorts == {22, 2222, 0, -1, 65535, 65536}
CmdIdentityFiles ==
  {<<>>,
   KeyPath,
   <<"/", "home", "/", "me", "/", "k">>,
   <<"~", "/", "k">>,
   <<"/", "etc", "/", "k">>,
   <<"~", "/", ".", "ssh", "/", ".", ".", "/", "k">>,
   <<"~", "/", ".", "ssh", "/", "k", ";", "x">>}

CmdInfos ==
  {Info(<<"a">>, <<"a">>, h, u, p, f) :
     h \in CmdHosts, u \in CmdUsers, p \in CmdPorts, f \in CmdIdentityFiles}

InitCommand ==
  /\ cmdInfo \in CmdInfos
  /\ keyExists \in BOOLEAN
  /\ cmdResult = NoResult
  /\ cmdDisplay = <<>>
  /\ cmdPc = "idle"
  /\ SSHIdle /\ AliasIdle /\ ConnectIdle /\ SecIdle /\ CascadeIdle /\ StoreIdle /\ ProcIdle

\* a caller obtains the execution command
BuildSSHCommand ==
  /\ cmdPc \in {"idle", "display"}
  /\ cmdResult' = buildSSHCommand(cmdInfo, keyExists)
  /\ cmdPc' = IF cmdPc = "idle" THEN "exec" ELSE "both"
  /\ UNCHANGED <<cmdInfo, keyExists, cmdDisplay>>

\* a caller obtains the display command
BuildSSHCommandDisplay ==
  /\ cmdPc \in {"idle", "exec"}
  /\ cmdDisplay' = buildSSHCommandDisplay(cmdInfo)
  /\ cmdPc' = IF cmdPc = "idle" THEN "display" ELSE "both"
  /\ UNCHANGED <<cmdInfo, keyExists, cmdResult>>

NextCommand ==
  \/ BuildSSHCommand /\ UNCHANGED <<sshVars, aliasVars, connectVars, secVars, cascadeVars, storeVars, procVars>>
  \/ BuildSSHCommandDisplay /\ UNCHANGED <<sshVars, aliasVars, connectVars, secVars, cascadeVars, storeVars, procVars>>

SpecCommand == InitCommand /\ [][NextCommand]_vars

ExecBuilt == cmdPc \in {"exec", "both"}
DisplayBuilt == cmdPc \in {"display", "both"}

\* every field of the info passes its validator
AllFieldsValid(info) ==
  /\ isValidHost(info.host)
  /\ isValidUser(info.user)
  /\ isValidPort(Num(info.port))
  /\ (info.identityFile = <<>> \/ isValidIdentityFile(info.identityFile))

\* ssh [-i path] [-p port] user@host, single spaces between the tokens
ExpectedCommand(info, path) ==
  <<"ssh">>
    \o (IF info.identityFile = <<>> THEN <<>> ELSE <<SP, "-i", SP>> \o path)
    \o (IF info.port = 22 THEN <<>> ELSE <<SP, "-p", SP>> \o String(info.port))
    \o <<SP>> \o info.user \o <<"@">> \o info.host

\* C4: buildSSHCommand returns a command string only when host, user, port
\* and a non-empty identityFile all pass their validators; otherwise it
\* throws an Error carrying the validation message and returns no string.
C4_ThrowsIffInvalid ==
  ExecBuilt =>
    /\ cmdResult.threw <=> ~AllFieldsValid(cmdInfo)
    /\ cmdResult.threw =>
         /\ cmdResult.value = <<>>
         /\ cmdResult.error = validateConnectionInfo(cmdInfo).error
         /\ startsWith(cmdResult.error, <<"Invalid ">>)
    /\ ~cmdResult.threw => startsWith(cmdResult.value, <<"ssh">>)

\* C4 witness: a valid host with an invalid user made buildSSHCommand throw
C4_Witness ==
  /\ ExecBuilt
  /\ cmdResult.threw
  /\ isValidHost(cmdInfo.host)
  /\ ~isValidUser(cmdInfo.user)

\* C9: both builders produce ssh, then -i <path> iff an identity file is
\* set, then -p <port> iff port is not 22, then user@host, joined by single
\* spaces (the execution variant for a valid info whose key file exists,
\* with the expanded path).
C9_TokenOrder ==
  /\ DisplayBuilt =>
       cmdDisplay = ExpectedCommand(cmdInfo, cmdInfo.identityFile)
  /\ (ExecBuilt /\ AllFieldsValid(cmdInfo) /\ keyExists) =>
       /\ ~cmdResult.threw
       /\ cmdResult.value = ExpectedCommand(cmdInfo, expandPath(cmdInfo.identityFile))

\* C9 witness: both builders ran on a valid info with an identity file that
\* exists and a port other than 22
C9_Witness ==
  /\ cmdPc = "both"
  /\ AllFieldsValid(cmdInfo)
  /\ keyExists
  /\ cmdInfo.identityFile # <<>>
  /\ cmdInfo.port # 22

\* C10: for a valid info whose identity file does not exist buildSSHCommand
\* does not throw; the command has no -i token and is the command of the
\* same info without an identity file.
C10_MissingKeyOmitted ==
  (ExecBuilt /\ AllFieldsValid(cmdInfo) /\ cmdInfo.identityFile # <<>> /\ ~keyExists) =>
    /\ ~cmdResult.threw
    /\ \A i \in 1..Len(cmdResult.value) : cmdResult.value[i] # "-i"
    /\ cmdResult.value =
         buildSSHCommand([cmdInfo EXCEPT !.identityFile = <<>>], keyExists).value
    /\ cmdResult.value =
         <<"ssh">>
           \o (IF cmdInfo.port = 22 THEN <<>> ELSE <<SP, "-p", SP>> \o String(cmdInfo.port))
           \o <<SP>> \o cmdInfo.user \o <<"@">> \o cmdInfo.host

\* C10 witness: the command was built for a valid info whose key is missing
C10_Witness ==
  /\ ExecBuilt
  /\ AllFieldsValid(cmdInfo)
  /\ cmdInfo.identityFile # <<>>
  /\ ~keyExists
  /\ cmdInfo.port # 22

-----------------------------------------------------------------------------
(* generateSSHConfigAlias on two (fleet, vessel) pairs (SpecAlias)         *)

NameTokens == {"a", "-", "_", " "}

RECURSIVE NamesUpTo(_)
NamesUpTo(n) ==
  IF n = 0 THEN {<<>>}
  ELSE LET shorter == NamesUpTo(n - 1) IN
       shorter \cup {Append(s, c) : s \in shorter, c \in NameTokens}

\* the names the fleet and vessel forms accept
FleetNames == {n \in NamesUpTo(MaxNameLen) : isValidFleetName(n)}
VesselNames == {n \in NamesUpTo(MaxNameLen) : isValidVesselName(n)}

NamePairs == FleetNames \X VesselNames

InitAlias ==
  /\ aliasArgs \in NamePairs \X NamePairs
  /\ aliasOut = <<>>
  /\ SSHIdle /\ CmdIdle /\ ConnectIdle /\ SecIdle /\ CascadeIdle /\ StoreIdle /\ ProcIdle

GenerateAliases ==
  /\ aliasOut = <<>>
  /\ aliasOut' = <<aliasOf(aliasArgs[1][1], aliasArgs[1][2]),
                   aliasOf(aliasArgs[2][1], aliasArgs[2][2])>>
  /\ UNCHANGED aliasArgs

NextAlias == GenerateAliases /\ UNCHANGED <<sshVars, cmdVars, connectVars, secVars, cascadeVars, storeVars, procVars>>

SpecAlias == InitAlias /\ [][NextAlias]_vars

\* C6: two distinct (fleetName, vesselName) pairs never get the same alias.
C6_AliasUnique ==
  (aliasOut # <<>> /\ aliasArgs[1] # aliasArgs[2]) => aliasOut[1] # aliasOut[2]

\* a name with every token that is no letter and no digit replaced by "_"
Cleaned(name) ==
  [i \in 1..Len(name) |-> IF name[i] \in Letters \cup Digits THEN name[i] ELSE "_"]

\* C17: the alias is SSHarbor_<F>_<V>, F and V being the fleet and the
\* vessel name with each character outside [A-Za-z0-9] replaced by one "_"
\* (so of the same lengths); it is made of [A-Za-z0-9_] only and equal
\* inputs give equal aliases.
C17_AliasShape ==
  aliasOut # <<>> =>
    /\ \A k \in 1..2 :
         LET F == Cleaned(aliasArgs[k][1])
             V == Cleaned(aliasArgs[k][2])
         IN /\ aliasOut[k] = <<"SSHarbor", "_">> \o F \o <<"_">> \o V
            /\ Len(aliasOut[k]) = 3 + Len(aliasArgs[k][1]) + Len(aliasArgs[k][2])
            /\ \A i \in 1..Len(aliasOut[k]) :
                 aliasOut[k][i] \in Letters \cup Digits \cup {"_"}
    /\ aliasArgs[1] = aliasArgs[2] => aliasOut[1] = aliasOut[2]

\* C17 witness: names with a hyphen and a space got their alias
C17_Witness ==
  /\ aliasOut # <<>>
  /\ aliasArgs[1] = <<<<"a", "-">>, <<"a", " ">>>>
  /\ aliasOut[1] = <<"SSHarbor", "_", "a", "_", "_", "a", "_">>

-----------------------------------------------------------------------------
(* The connect commands (commands/connect.ts) on a harbor.json             *)

\* ConfigManager.getSettings with the default values of the settings
defaultUser == <<"root">>
defaultPort == 22
defaultShell == <<"/bin/zsh">>
maxRecentConnections == 5

\* the settings getSettings returns: what the user set, or the defaults
Settings(user, port, shell) ==
  [defaultUser |-> user, defaultPort |-> port, defaultShell |-> shell]

DefaultSettings == Settings(defaultUser, defaultPort, defaultShell)

\* a || b for strings: '' (and undefined) is falsy
OrElse(a, b) == IF a = <<>> THEN b ELSE a

\* a || b for numbers: 0 (and undefined) is falsy
OrElseNum(a, b) == IF a = 0 THEN b ELSE a

\* an absent field (undefined) is <<>>, or 0 for the port
Defaults(user, port, identityFile) ==
  [user |-> user, port |-> port, identityFile |-> identityFile, shell |-> <<>>]

Vessel(name, host, user, port, identityFile) ==
  [name |-> name, host |-> host, user |-> user, port |-> port,
   identityFile |-> identityFile, shell |-> <<>>]

resolvedFieldsSettingsFirst(vessel, fleetDefaults, harborDefaults, settings) ==
  [user |-> OrElse(settings.defaultUser, OrElse(vessel.user,
              OrElse(fleetDefaults.user, harborDefaults.user))),
   port |-> OrElseNum(vessel.port, OrElseNum(fleetDefaults.port,
              OrElseNum(harborDefaults.port, settings.defaultPort))),
   identityFile |-> OrElse(vessel.identityFile, OrElse(fleetDefaults.identityFile,
              harborDefaults.identityFile)),
   shell |-> OrElse(vessel.shell, OrElse(fleetDefaults.shell,
              OrElse(harborDefaults.shell, settings.defaultShell)))]

\* VesselItem.constructor, lines 183-201: user, port, identityFile, shell
resolvedFields(vessel, fleetDefaults, harborDefaults, settings) ==
  [user |-> OrElse(vessel.user, OrElse(fleetDefaults.user,
              OrElse(harborDefaults.user, settings.defaultUser))),
   port |-> OrElseNum(vessel.port, OrElseNum(fleetDefaults.port,
              OrElseNum(harborDefaults.port, settings.defaultPort))),
   identityFile |-> OrElse(vessel.identityFile, OrElse(fleetDefaults.identityFile,
              harborDefaults.identityFile)),
   shell |-> OrElse(vessel.shell, OrElse(fleetDefaults.shell,
              OrElse(harborDefaults.shell, settings.defaultShell)))]

\* quickConnect, lines 105-124: the same chain on config.defaults
quickConnectFields(vessel, fleetDefaults, configDefaults, settings) ==
  [user |-> OrElse(vessel.user, OrElse(fleetDefaults.user,
              OrElse(configDefaults.user, settings.defaultUser))),
   port |-> OrElseNum(vessel.port, OrElseNum(fleetDefaults.port,
              OrElseNum(configDefaults.port, settings.defaultPort))),
   identityFile |-> OrElse(vessel.identityFile, OrElse(fleetDefaults.identityFile,
              configDefaults.identityFile)),
   shell |-> OrElse(vessel.shell, OrElse(fleetDefaults.shell,
              OrElse(configDefaults.shell, settings.defaultShell)))]

\* VesselItem.constructor: the connection info of a vessel, each field
\* from the vessel, the fleet defaults, the harbor defaults, the settings
connectionInfoOf(vessel, fleet, harborDefaults, settings) ==
  LET fields == resolvedFields(vessel, fleet.defaults, harborDefaults, settings) IN
  Info(fleet.name,
       OrElse(vessel.name, vessel.host),
       vessel.host,
       fields.user,
       fields.port,
       fields.identityFile)

\* the connection infos of the tree items of the harbor view
TreeInfos ==
  {connectionInfoOf(harbor.fleets[f].vessels[v], harbor.fleets[f], harbor.defaults,
                    DefaultSettings) :
     f \in 1..Len(harbor.fleets), v \in 1..2}

\* ConfigManager.getVesselKey: `${user}@${host}:${port}`
getVesselKey(host, user, port) == user \o <<"@">> \o host \o <<":">> \o String(port)

\* ConfigManager.getVesselSavedPaths
getVesselSavedPaths(host, user, port) ==
  LET key == getVesselKey(host, user, port) IN
  IF key \in DOMAIN vesselPaths THEN vesselPaths[key] ELSE <<>>

\* arr.filter(pred), for pred given as the set of the elements kept
RECURSIVE filterSeq(_, _)
filterSeq(arr, kept) ==
  IF arr = <<>> THEN <<>>
  ELSE (IF Head(arr) \in kept THEN <<Head(arr)>> ELSE <<>>)
         \o filterSeq(Tail(arr), kept)

\* arr.slice(0, n): a negative n counts from the end
sliceTo(arr, n) ==
  LET end == IF n < 0 THEN (IF Len(arr) + n < 0 THEN 0 ELSE Len(arr) + n)
             ELSE IF Len(arr) < n THEN Len(arr) ELSE n
  IN SubSeq(arr, 1, end)

Range(arr) == {arr[i] : i \in 1..Len(arr)}

\* the limit of saved paths per vessel
MaxVesselPaths == 10

\* addVesselPath without its slice(0, 10)
addVesselPathNoLimit(storage, host, user, port, folderPath) ==
  LET key == getVesselKey(host, user, port)
      old == IF key \in DOMAIN storage THEN storage[key] ELSE <<>>
      new == <<folderPath>> \o filterSeq(old, Range(old) \ {folderPath})
  IN [k \in (DOMAIN storage) \cup {key} |-> IF k = key THEN new ELSE storage[k]]

\* ConfigManager.removeVesselPath: the storage after it
removeVesselPath(storage, host, user, port, folderPath) ==
  LET key == getVesselKey(host, user, port) IN
  IF key \in DOMAIN storage
  THEN [storage EXCEPT ![key] = filterSeq(@, Range(@) \ {folderPath})]
  ELSE storage

\* ConfigManager.addVesselPath: the storage it saves
addVesselPath(storage, host, user, port, folderPath) ==
  LET key == getVesselKey(host, user, port)
      old == IF key \in DOMAIN storage THEN storage[key] ELSE <<>>
      new == sliceTo(<<folderPath>> \o filterSeq(old, Range(old) \ {folderPath}),
                     MaxVesselPaths)
  IN [k \in (DOMAIN storage) \cup {key} |-> IF k = key THEN new ELSE storage[k]]

\* the recent connection made of a connection info (the timestamp, which
\* nothing reads back, is left out)
RecentOf(info) ==
  [host |-> info.host, user |-> info.user, port |-> info.port,
   identityFile |-> info.identityFile, fleetName |-> info.fleetName,
   vesselName |-> info.name]

\* push in place of unshift: the new entry goes to the end
addRecentAtEnd(list, connection, max) ==
  sliceTo(filterSeq(list,
                 {r \in Range(list) :
                    ~(r.host = connection.host /\ r.user = connection.user
                        /\ r.port = connection.port)})
            \o <<connection>>,
          max)

\* ConfigManager.addRecent: the list it saves, for max the setting
\* maxRecentConnections
addRecent(list, connection, max) ==
  sliceTo(<<connection>>
            \o filterSeq(list,
                 {r \in Range(list) :
                    ~(r.host = connection.host /\ r.user = connection.user
                        /\ r.port = connection.port)}),
          max)

\* the home directory connect opens by default
homePathOf(info) ==
  IF info.user = <<"root">> THEN <<"/", "root">> ELSE <<"/", "home", "/">> \o info.user

FolderPaths == {<<"/", "srv">>, <<"/", "var">>}

\* what the user does with the folder picker of connect: it is shown only
\* when the vessel has saved paths
Choice(kind, path) == [kind |-> kind, path |-> path]

PickerChoices(info) ==
  LET savedPaths == getVesselSavedPaths(info.host, info.user, info.port) IN
  IF savedPaths = <<>> THEN {Choice("home", homePathOf(info))}
  ELSE {Choice("cancel", <<>>), Choice("home", homePathOf(info))}
         \cup {Choice("saved", q) : q \in Range(savedPaths)}
         \cup {Choice("custom", q) : q \in FolderPaths}

\* connect(configManager, info) after the folder was chosen: lines 70-97
ConnectTo(info, selectedPath) ==
  /\ WriteEntry(info)
  /\ written' = written \cup {info}
  /\ vesselPaths' =
       IF selectedPath # homePathOf(info)
       THEN addVesselPath(vesselPaths, info.host, info.user, info.port, selectedPath)
       ELSE vesselPaths
  /\ recent' = addRecent(recent, RecentOf(info), maxRecentConnections)
  /\ statusBar' = <<RecentOf(info)>>

\* the command ssharbor.connect on a tree item
ConnectWith(info, choice) ==
  /\ nConnects < MaxConnects
  /\ nConnects' = nConnects + 1
  /\ IF choice.kind = "cancel"
     THEN UNCHANGED <<sshVars, written, vesselPaths, recent, statusBar>>
     ELSE ConnectTo(info, choice.path)
  /\ UNCHANGED <<harbor, terminalSent>>

Connect ==
  \E info \in TreeInfos : \E choice \in PickerChoices(info) :
    ConnectWith(info, choice)

\* the command ssharbor.connectToFolder
ConnectToFolder ==
  \E info \in TreeInfos : \E folderPath \in FolderPaths :
    /\ nConnects < MaxConnects
    /\ nConnects' = nConnects + 1
    /\ WriteEntry(info)
    /\ written' = written \cup {info}
    /\ vesselPaths' = addVesselPath(vesselPaths, info.host, info.user, info.port, folderPath)
    /\ recent' = addRecent(recent, RecentOf(info), maxRecentConnections)
    /\ UNCHANGED <<harbor, statusBar, terminalSent>>

\* the command ssharbor.connectNewWindow: connectTerminal
ConnectTerminal ==
  \E info \in TreeInfos : \E exists \in BOOLEAN :
    LET sshCommand == buildSSHCommand(info, exists) IN
    /\ nConnects < MaxConnects
    /\ nConnects' = nConnects + 1
    /\ IF sshCommand.threw
       THEN UNCHANGED <<terminalSent, recent>>
       ELSE /\ terminalSent' = terminalSent \cup {sshCommand.value}
            /\ recent' = addRecent(recent, RecentOf(info), maxRecentConnections)
    /\ UNCHANGED <<sshVars, harbor, vesselPaths, statusBar, written>>

\* the command ssharbor.reconnect: connect to the head of the recent list
Reconnect ==
  /\ recent # <<>>
  /\ LET last == recent[1]
         info == Info(OrElse(last.fleetName, <<"Recent">>),
                      OrElse(last.vesselName, last.host),
                      last.host, last.user, last.port, last.identityFile)
     IN \E choice \in PickerChoices(info) : ConnectWith(info, choice)

\* the vessels a harbor.json can hold: the file is edited by hand and
\* imported, so a field holds any text or number
VesselHosts == {<<"h">>, <<"h", ";", "x">>}
VesselUsers == {<<>>, <<"u">>, <<"u", " ", "x">>}
VesselPorts == {0, 2222, 65536}

Harbors ==
  {[defaults |-> Defaults(<<>>, dp, <<>>),
    fleets |-> <<[name |-> <<"a">>,
                  defaults |-> Defaults(fu, 0, <<>>),
                  vessels |-> <<Vessel(<<"a">>, h, u, p, <<>>),
                                Vessel(<<"b">>, <<"h", ".", "a">>, <<>>, 0, KeyPath)>>]>>] :
     dp \in {0, 2222}, fu \in {<<>>, <<"u">>},
     h \in VesselHosts, u \in VesselUsers, p \in VesselPorts}

InitConnect ==
  /\ harbor \in Harbors
  /\ recent = <<>>
  /\ vesselPaths = <<>>
  /\ statusBar = <<>>
  /\ written = {}
  /\ terminalSent = {}
  /\ nConnects = 0
  /\ SSHIdle /\ CmdIdle /\ AliasIdle /\ SecIdle /\ CascadeIdle /\ StoreIdle /\ ProcIdle

NextConnect ==
  \/ Connect /\ UNCHANGED <<cmdVars, aliasVars, secVars, cascadeVars, storeVars, procVars>>
  \/ ConnectToFolder /\ UNCHANGED <<cmdVars, aliasVars, secVars, cascadeVars, storeVars, procVars>>
  \/ ConnectTerminal /\ UNCHANGED <<cmdVars, aliasVars, secVars, cascadeVars, storeVars, procVars>>
  \/ Reconnect /\ UNCHANGED <<cmdVars, aliasVars, secVars, cascadeVars, storeVars, procVars>>

SpecConnect == InitConnect /\ [][NextConnect]_vars

\* C5: a stanza is written to ~/.ssh/config only for a connection whose
\* port is in [1, 65535], whose user matches the username syntax and whose
\* host matches the hostname syntax.
C5_OnlyValidWritten ==
  \A info \in written :
    /\ isValidPort(Num(info.port))
    /\ isValidUser(info.user)
    /\ isValidHost(info.host)

-----------------------------------------------------------------------------
(* The functions of core/security.ts, each called once on an input         *)
(* (SpecSecurity)                                                          *)

\* the sequences of at most n tokens of the set toks
RECURSIVE SeqsUpTo(_, _)
SeqsUpTo(toks, n) ==
  IF n = 0 THEN {<<>>}
  ELSE LET shorter == SeqsUpTo(toks, n - 1) IN
       shorter \cup {Append(w, c) : w \in shorter, c \in toks}

NotCalled == secFn = "none"

Called(fn, arg, out) ==
  /\ secFn' = fn
  /\ secArg' = arg
  /\ secOut' = out

ValidateConnectionInfo ==
  /\ NotCalled
  /\ \E info \in CmdInfos :
    Called("validateConnectionInfo", info, validateConnectionInfo(info))

\* the key file names and the directories they are put in
KeyNameTokens == {"k", "1", ".", "/", "-", "_"}
KeyNames == SeqsUpTo(KeyNameTokens, MaxArgLen)
SshPrefix == <<"~", "/", ".", "ssh", "/">>
PathPrefixes ==
  {SshPrefix,
   <<"~", "/">>,
   <<"~">>,
   <<"/">>,
   <<"/", "home", "/">>,
   <<"/", "home", "/", "me", "/">>,
   <<"/", "home", "/", "me", "/", ".", "ssh", "/">>,
   <<"/", "Users", "/", "me", "/">>,
   <<"/", "etc", "/">>}
IdentityFiles ==
  {pre \o name : pre \in PathPrefixes, name \in KeyNames}
    \cup {<<"/", "etc", "/", "passwd">>, <<"/", "tmp", "/", "key">>,
          <<"~", "/", ".", "ssh", "/", "k", ";">>, <<"k">>}

IsValidIdentityFile ==
  /\ NotCalled
  /\ \E filePath \in IdentityFiles :
    Called("isValidIdentityFile", filePath, isValidIdentityFile(filePath))

\* ports given as numbers (0.5, 1.5 and 65535.5 among them) and as strings
PortValues ==
  {Num(n) : n \in {0 - 1, 0, 1, 22, 65535, 65536}}
    \cup {Halves(1), Halves(3), Halves(2 * 65535 + 1), NaN}
    \cup {Str(t) : t \in {<<>>, <<"0">>, <<"1">>, <<"22">>, <<"-", "1">>,
                           <<"6", "5", "5", "3", "5">>, <<"6", "5", "5", "3", "6">>,
                           <<"a">>, <<"a", "22">>, <<"22", "a">>,
                           <<"22", ";", "x">>, <<"1", ".", "5">>}}

IsValidPort ==
  /\ NotCalled
  /\ \E port \in PortValues : Called("isValidPort", port, isValidPort(port))

HostTokens == {"a", "1", ".", "-", ";"}
HostValues ==
  {Str(h) : h \in SeqsUpTo(HostTokens, MaxArgLen)} \cup {Num(1), Undefined}

\* line 9 rejects what is not a string
IsValidHost ==
  /\ NotCalled
  /\ \E host \in HostValues :
    Called("isValidHost", host,
           IF host.type # "string" THEN FALSE ELSE isValidHost(host.str))

NameArgTokens == {"a", "1", " ", "-", "_", ".", ";", "A49"}
NameArgs == SeqsUpTo(NameArgTokens, MaxArgLen)

IsValidFleetName ==
  /\ NotCalled
  /\ \E name \in NameArgs : Called("isValidFleetName", name, isValidFleetName(name))

IsValidVesselName ==
  /\ NotCalled
  /\ \E name \in NameArgs : Called("isValidVesselName", name, isValidVesselName(name))

QuickTokens == {"u", "1", "@", ":", "0", " ", ";"}
QuickInputs == SeqsUpTo(QuickTokens, MaxInputLen)

ParseQuickConnect ==
  /\ NotCalled
  /\ \E input \in QuickInputs :
    Called("parseQuickConnect", input, parseQuickConnect(input))

\* the texts handed to sanitize: the texts of two of the characters it
\* removes, two letters and a space; every character it removes alone,
\* twice and between two letters; and values that are no strings
SanitizeTokens == {";", "$", "a", "b", " "}
SanitizeTexts ==
  SeqsUpTo(SanitizeTokens, MaxArgLen)
    \cup {<<c>> : c \in Dangerous}
    \cup {<<c, c>> : c \in Dangerous}
    \cup {<<"a", c, "b">> : c \in Dangerous}
SanitizeInputs == {Str(t) : t \in SanitizeTexts} \cup {Num(1), NaN, Undefined}

Sanitize ==
  /\ NotCalled
  /\ \E input \in SanitizeInputs :
    Called("sanitize", input, sanitizeValue(input))

InitSecurity ==
  /\ SecIdle
  /\ SSHIdle /\ CmdIdle /\ AliasIdle /\ ConnectIdle /\ CascadeIdle /\ StoreIdle /\ ProcIdle

NextSecurity ==
  \/ ValidateConnectionInfo /\ UNCHANGED <<sshVars, cmdVars, aliasVars, connectVars, cascadeVars, storeVars, procVars>>
  \/ IsValidIdentityFile /\ UNCHANGED <<sshVars, cmdVars, aliasVars, connectVars, cascadeVars, storeVars, procVars>>
  \/ IsValidPort /\ UNCHANGED <<sshVars, cmdVars, aliasVars, connectVars, cascadeVars, storeVars, procVars>>
  \/ IsValidHost /\ UNCHANGED <<sshVars, cmdVars, aliasVars, connectVars, cascadeVars, storeVars, procVars>>
  \/ IsValidFleetName /\ UNCHANGED <<sshVars, cmdVars, aliasVars, connectVars, cascadeVars, storeVars, procVars>>
  \/ IsValidVesselName /\ UNCHANGED <<sshVars, cmdVars, aliasVars, connectVars, cascadeVars, storeVars, procVars>>
  \/ ParseQuickConnect /\ UNCHANGED <<sshVars, cmdVars, aliasVars, connectVars, cascadeVars, storeVars, procVars>>
  \/ Sanitize /\ UNCHANGED <<sshVars, cmdVars, aliasVars, connectVars, cascadeVars, storeVars, procVars>>

SpecSecurity == InitSecurity /\ [][NextSecurity]_vars

\* C11: validateConnectionInfo reports the first of host, user, port and
\* identityFile that fails its validator, with the field and its value in
\* the message, and answers valid without an error exactly when host, user
\* and port pass and identityFile is empty or passes.
C11_FirstFailureReported ==
  secFn = "validateConnectionInfo" =>
    LET hostOk == isValidHost(secArg.host)
        userOk == isValidUser(secArg.user)
        portOk == secArg.port >= 1 /\ secArg.port <= 65535
        fileOk == secArg.identityFile = <<>> \/ isValidIdentityFile(secArg.identityFile)
    IN /\ secOut.valid <=> (hostOk /\ userOk /\ portOk /\ fileOk)
       /\ secOut.valid => secOut.error = <<>>
       /\ ~hostOk => secOut.error = <<"Invalid ", "host", ": ">> \o secArg.host
       /\ (hostOk /\ ~userOk) =>
            secOut.error = <<"Invalid ", "user", ": ">> \o secArg.user
       /\ (hostOk /\ userOk /\ ~portOk) =>
            secOut.error = <<"Invalid ", "port", ": ">> \o String(secArg.port)
       /\ (hostOk /\ userOk /\ portOk /\ ~fileOk) =>
            secOut.error = <<"Invalid ", "identity file path", ": ">> \o secArg.identityFile

\* C11 witness: the user and the port are both invalid and the user is named
C11_Witness ==
  /\ secFn = "validateConnectionInfo"
  /\ isValidHost(secArg.host)
  /\ ~isValidUser(secArg.user)
  /\ secArg.port = 0
  /\ secOut.error = <<"Invalid ", "user", ": ">> \o secArg.user

\* the characters of the whitelist after the first: [a-zA-Z0-9._/-]
IsWhitelisted(name) ==
  \A i \in 1..Len(name) : name[i] \in Alnum \cup {".", "_", "/", "-"}

\* the part of a path after ~/.ssh/
NameOf(filePath) == SubSeq(filePath, Len(SshPrefix) + 1, Len(filePath))

\* C12 as stated: isValidIdentityFile accepts ~/.ssh/<name> for every
\* <name> made of the whitelist characters [A-Za-z0-9._/-] only.
C12_AcceptsEverySshName ==
  (/\ secFn = "isValidIdentityFile"
   /\ startsWith(secArg, SshPrefix)
   /\ IsWhitelisted(NameOf(secArg)))
    => secOut

\* C12 amended: isValidIdentityFile accepts ~/.ssh/<name> for every <name>
\* made of the whitelist characters only in which no two dots are adjacent.
C12_AcceptsSshNameWithoutDotDot ==
  (/\ secFn = "isValidIdentityFile"
   /\ startsWith(secArg, SshPrefix)
   /\ IsWhitelisted(NameOf(secArg))
   /\ ~includes(NameOf(secArg), <<".", ".">>))
    => secOut

\* C12 witness: a name with a dot, a hyphen and a slash was accepted
C12_Witness ==
  /\ secFn = "isValidIdentityFile"
  /\ secArg = SshPrefix \o <<".", "/", "-">>
  /\ secOut

\* the segments of the path a file path resolves to, "~" expanded
ResolvedSegments(filePath) ==
  normalizeSegments(
    splitSlash(IF filePath # <<>> /\ Head(filePath) = "~"
               THEN homedir \o Tail(filePath) ELSE filePath, <<>>), <<>>)

\* C13: a path isValidIdentityFile accepts has no ".." in it and resolves,
\* "~" expanded, to a path strictly inside the home directory; /etc/passwd
\* and /tmp/key are rejected.
C13_AcceptedInsideHome ==
  secFn = "isValidIdentityFile" =>
    /\ secOut =>
         /\ \A i \in 1..(Len(secArg) - 1) : ~(secArg[i] = "." /\ secArg[i + 1] = ".")
         /\ Len(ResolvedSegments(secArg)) > 2
         /\ SubSeq(ResolvedSegments(secArg), 1, 2) = <<<<"home">>, <<"me">>>>
    /\ secArg \in {<<"/", "etc", "/", "passwd">>, <<"/", "tmp", "/", "key">>} => ~secOut

\* C13 witness: an absolute path in the home directory, outside .ssh, was
\* accepted
C13_Witness ==
  /\ secFn = "isValidIdentityFile"
  /\ secArg = <<"/", "home", "/", "me", "/", "k">>
  /\ secOut

\* the decimal numerals: an optional sign and one digit or more
IsNumeral(t) ==
  LET d == IF t # <<>> /\ Head(t) \in {"+", "-"} THEN Tail(t) ELSE t IN
  d # <<>> /\ \A i \in 1..Len(d) : d[i] \in Digits

\* the integer a numeral denotes
NumeralValue(t) ==
  IF Head(t) = "-" THEN 0 - decimalValue(Tail(t), 0)
  ELSE IF Head(t) = "+" THEN decimalValue(Tail(t), 0)
  ELSE decimalValue(t, 0)

\* a number or a numeric string that denotes an integer of [1, 65535]
DenotesPort(port) ==
  IF port.type = "string"
  THEN IsNumeral(port.str)
         /\ NumeralValue(port.str) >= 1 /\ NumeralValue(port.str) <= 65535
  ELSE /\ ~port.nan
       /\ port.halves % 2 = 0
       /\ port.halves >= 2 /\ port.halves <= 2 * 65535

\* C14: isValidPort(p) is true exactly when p, a number or a numeric string
\* read in base 10, denotes an integer of [1, 65535]; it is false for 0,
\* negative values, values above 65535, NaN and every non-numeric string.
C14_PortIffIntegerInRange ==
  secFn = "isValidPort" => (secOut <=> DenotesPort(secArg))

\* C15: isValidHost(h) is true exactly when h is a non-empty string of
\* letters, digits, dots and hyphens whose first and last characters are
\* letters or digits; what is not a string is rejected.
C15_HostIffWellFormed ==
  secFn = "isValidHost" =>
    (secOut <=>
       /\ secArg.type = "string"
       /\ Len(secArg.str) >= 1
       /\ \A i \in 1..Len(secArg.str) :
            secArg.str[i] \in Letters \cup Digits \cup {".", "-"}
       /\ secArg.str[1] \in Letters \cup Digits
       /\ secArg.str[Len(secArg.str)] \in Letters \cup Digits)

\* C15 witness: a host with a dot and a hyphen inside was accepted, and a
\* single character is a host
C15_Witness ==
  /\ secFn = "isValidHost"
  /\ secArg \in {Str(<<"a", ".", "1">>), Str(<<"a", "-", "1">>), Str(<<"a">>)}
  /\ secOut

\* the characters a fleet name is made of, and those of a vessel name
NameChars(fn) ==
  Letters \cup Digits \cup {" ", "-", "_"}
    \cup (IF fn = "isValidVesselName" THEN {"."} ELSE {})

\* C16 as stated: a fleet (vessel) name is valid exactly when it is not
\* empty, has at most 50 characters, is made of letters, digits, spaces,
\* hyphens and underscores (and dots for a vessel) and does not start with
\* a space.
C16_NameIffNoLeadingSpace ==
  secFn \in {"isValidFleetName", "isValidVesselName"} =>
    (secOut <=>
       /\ Len(secArg) >= 1
       /\ StrLen(secArg) <= 50
       /\ \A i \in 1..Len(secArg) : secArg[i] \in NameChars(secFn)
       /\ secArg[1] # " ")

\* C16 amended: a fleet (vessel) name is valid exactly when it is not
\* empty, has at most 50 characters, is made of letters, digits, spaces,
\* hyphens and underscores (and dots for a vessel) and starts with a
\* letter or a digit.
C16_NameIffAlnumFirst ==
  secFn \in {"isValidFleetName", "isValidVesselName"} =>
    (secOut <=>
       /\ Len(secArg) >= 1
       /\ StrLen(secArg) <= 50
       /\ \A i \in 1..Len(secArg) : secArg[i] \in NameChars(secFn)
       /\ secArg[1] \in Letters \cup Digits)

\* C16 witness: a fleet name of exactly 50 characters was accepted
C16_Witness ==
  /\ secFn = "isValidFleetName"
  /\ secArg = <<"A49", "a">>
  /\ secOut

-----------------------------------------------------------------------------
(* The defaults cascade on one vessel (SpecCascade)                        *)

\* the four fields of a level: each is absent or set
FieldsOf(user, port, identityFile, shell) ==
  [user |-> user, port |-> port, identityFile |-> identityFile, shell |-> shell]

LevelFields(user, port, identityFile, shell) ==
  {FieldsOf(u, p, f, sh) :
     u \in {<<>>, user}, p \in {0, port}, f \in {<<>>, identityFile},
     sh \in {<<>>, shell}}

VesselFields == LevelFields(<<"u">>, 2222, KeyPath, <<"/bin/bash">>)
FleetFields == LevelFields(<<"a">>, 2200, <<"~", "/", ".", "ssh", "/", "a">>, <<"/bin/sh">>)
HarborFields == LevelFields(<<"b">>, 2022, <<"~", "/", ".", "ssh", "/", "b">>, <<"/bin/fish">>)

\* the settings: untouched, cleared by the user, or set by the user
SettingsChoices ==
  {DefaultSettings, Settings(<<>>, 0, <<>>), Settings(<<"x">>, 8022, <<"/bin/ksh">>)}

CascadeInputs ==
  {[vessel |-> v, fleet |-> f, harbor |-> h, settings |-> st] :
     v \in VesselFields, f \in FleetFields, h \in HarborFields,
     st \in SettingsChoices}

NotResolved == cascadeBy = "none"

\* the tree view builds the item of a vessel
ResolveVesselItem ==
  /\ NotResolved
  /\ \E in \in CascadeInputs :
       /\ cascadeBy' = "VesselItem"
       /\ cascadeIn' = in
       /\ cascadeOut' = resolvedFields(in.vessel, in.fleet, in.harbor, in.settings)

\* quick connect resolves the vessel picked from its list
ResolveQuickConnect ==
  /\ NotResolved
  /\ \E in \in CascadeInputs :
       /\ cascadeBy' = "quickConnect"
       /\ cascadeIn' = in
       /\ cascadeOut' = quickConnectFields(in.vessel, in.fleet, in.harbor, in.settings)

InitCascade ==
  /\ CascadeIdle
  /\ SSHIdle /\ CmdIdle /\ AliasIdle /\ ConnectIdle /\ SecIdle /\ StoreIdle /\ ProcIdle

NextCascade ==
  \/ ResolveVesselItem /\ UNCHANGED <<sshVars, cmdVars, aliasVars, connectVars, secVars, storeVars, procVars>>
  \/ ResolveQuickConnect /\ UNCHANGED <<sshVars, cmdVars, aliasVars, connectVars, secVars, storeVars, procVars>>

SpecCascade == InitCascade /\ [][NextCascade]_vars

\* the first value of a chain that is not the absent one, else the absent one
RECURSIVE FirstPresent(_, _)
FirstPresent(chain, absent) ==
  IF chain = <<>> THEN absent
  ELSE IF Head(chain) # absent THEN Head(chain)
  ELSE FirstPresent(Tail(chain), absent)

\* C18: each of user, port, identityFile and shell of a resolved vessel is
\* the first value that is not empty (not '' and not 0) among the vessel,
\* the fleet defaults, the harbor defaults and the extension setting
\* (identityFile has no setting and may stay absent); a value set at a
\* level is never replaced by one of a later level.
C18_FirstNonEmptyWins ==
  cascadeBy # "none" =>
    LET v == cascadeIn.vessel
        f == cascadeIn.fleet
        h == cascadeIn.harbor
        st == cascadeIn.settings
    IN /\ cascadeOut.user = FirstPresent(<<v.user, f.user, h.user, st.defaultUser>>, <<>>)
       /\ cascadeOut.port = FirstPresent(<<v.port, f.port, h.port, st.defaultPort>>, 0)
       /\ cascadeOut.identityFile =
            FirstPresent(<<v.identityFile, f.identityFile, h.identityFile>>, <<>>)
       /\ cascadeOut.shell =
            FirstPresent(<<v.shell, f.shell, h.shell, st.defaultShell>>, <<>>)
       /\ v.user # <<>> => cascadeOut.user = v.user
       /\ v.port # 0 => cascadeOut.port = v.port
       /\ (v.shell = <<>> /\ f.shell # <<>>) => cascadeOut.shell = f.shell
       /\ (v.identityFile = <<>> /\ f.identityFile = <<>>) =>
            cascadeOut.identityFile = h.identityFile

\* C18 witness: the user came from the fleet, the port from the harbor
\* defaults, the shell from the setting, and no identity file was found
C18_Witness ==
  /\ cascadeBy = "VesselItem"
  /\ cascadeOut = FieldsOf(<<"a">>, 2022, <<>>, <<"/bin/ksh">>)
  /\ cascadeIn.vessel = FieldsOf(<<>>, 0, <<>>, <<>>)

\* C19: a resolved connection has a user that is not empty and a port that
\* is not 0 whatever the vessel, the defaults and the settings hold; with
\* no value at any level the user is "root" and the port is 22.
C19_UserAndPortNeverEmpty ==
  cascadeBy # "none" =>
    /\ cascadeOut.user # <<>>
    /\ cascadeOut.port # 0
    /\ (/\ cascadeIn.vessel.user = <<>> /\ cascadeIn.fleet.user = <<>>
        /\ cascadeIn.harbor.user = <<>> /\ cascadeIn.settings = DefaultSettings)
         => cascadeOut.user = <<"root">>
    /\ (/\ cascadeIn.vessel.port = 0 /\ cascadeIn.fleet.port = 0
        /\ cascadeIn.harbor.port = 0 /\ cascadeIn.settings = DefaultSettings)
         => cascadeOut.port = 22

\* the ways to read t as [user@]host[:port]: a user without "@" before an
\* "@", a host without ":", and digits after a ":" up to the end
Readings(t) ==
  {[user |-> SubSeq(t, 1, a - 1), host |-> SubSeq(t, a + 1, c - 1),
    portStr |-> SubSeq(t, c + 1, Len(t))] :
     <<a, c>> \in
       {<<a, c>> \in (0..Len(t)) \X (1..(Len(t) + 1)) :
          /\ a < c - 1
          /\ a > 0 => /\ a > 1
                      /\ t[a] = "@"
                      /\ \A i \in 1..(a - 1) : t[i] # "@"
          /\ \A i \in (a + 1)..(c - 1) : t[i] # ":"
          /\ c <= Len(t) => /\ t[c] = ":"
                            /\ c < Len(t)
                            /\ \A i \in (c + 1)..Len(t) : t[i] \in Digits}}

\* the readings whose host, user and port pass the validators
ValidReadings(t) ==
  {r \in Readings(t) :
     /\ isValidHost(r.host)
     /\ r.user = <<>> \/ isValidUser(r.user)
     /\ r.portStr = <<>>
          \/ (decimalValue(r.portStr, 0) >= 1 /\ decimalValue(r.portStr, 0) <= 65535)}

\* C20: parseQuickConnect answers null when the trimmed and sanitized
\* input is empty, is no [user@]host[:port], or has a host, a user or a
\* port that fails its validator; a result that is not null has a valid
\* host, a user that is undefined or valid and a port that is undefined or
\* valid, as read from the input.
C20_NullOrValidParts ==
  secFn = "parseQuickConnect" =>
    LET t == sanitize(trim(secArg)) IN
    /\ t = <<>> => secOut.null
    /\ secOut.null <=> ValidReadings(t) = {}
    /\ ~secOut.null =>
         /\ isValidHost(secOut.host)
         /\ secOut.user = <<>> \/ isValidUser(secOut.user)
         /\ secOut.port = Undefined \/ DenotesPort(secOut.port)
         /\ \E r \in ValidReadings(t) :
              /\ secOut.user = r.user
              /\ secOut.host = r.host
              /\ secOut.port = IF r.portStr = <<>> THEN Undefined
                               ELSE Num(decimalValue(r.portStr, 0))

\* C20 witness: an input with white space and a dangerous character around
\* user@host was parsed
C20_Witness ==
  /\ secFn = "parseQuickConnect"
  /\ secArg = <<" ", "u", "@", "1", ";">>
  /\ secOut = [null |-> FALSE, user |-> <<"u">>, host |-> <<"1">>, port |-> Undefined]

\* a port as the decimal numeral of an integer from 1 to 65535
IsPortNumeral(portStr) ==
  LET p == decimalValue(portStr, 0) IN
  portStr # <<>> /\ portStr[1] # "0" /\ p >= 1 /\ p <= 65535

\* C21: for every valid user u, valid host h and valid port p,
\* parseQuickConnect returns user u, host h and port p for u@h:p, user u,
\* host h and an undefined port for u@h, an undefined user, host h and
\* port p for h:p, and an undefined user and port with host h for h.
C21_RoundTrip ==
  secFn = "parseQuickConnect" =>
    \A r \in Readings(secArg) :
      (/\ isValidHost(r.host)
       /\ r.user = <<>> \/ isValidUser(r.user)
       /\ r.portStr = <<>> \/ IsPortNumeral(r.portStr))
        => secOut = [null |-> FALSE, user |-> r.user, host |-> r.host,
                     port |-> IF r.portStr = <<>> THEN Undefined
                              ELSE Num(decimalValue(r.portStr, 0))]

\* C21 witness: u@1:1 was parsed into user u, host 1 and port 1
C21_Witness ==
  /\ secFn = "parseQuickConnect"
  /\ secArg = <<"u", "@", "1", ":", "1">>
  /\ secOut = [null |-> FALSE, user |-> <<"u">>, host |-> <<"1">>, port |-> Num(1)]

\* C21 witnesses of the three shorter forms
C21_WitnessNoPort ==
  /\ secFn = "parseQuickConnect"
  /\ secArg = <<"u", "@", "1">>
  /\ secOut = [null |-> FALSE, user |-> <<"u">>, host |-> <<"1">>, port |-> Undefined]

C21_WitnessNoUser ==
  /\ secFn = "parseQuickConnect"
  /\ secArg = <<"u", ":", "1">>
  /\ secOut = [null |-> FALSE, user |-> <<>>, host |-> <<"u">>, port |-> Num(1)]
\* the characters the claim lists: ; & | ` $ ( ) { } [ ] < > \ ' " ! #,
\* newline and carriage return
Stripped ==
  {";", "&", "|", BACKTICK, "$", "(", ")", "{", "}", "[", "]", "<", ">", "\\", "'",
   "\"", "!", "#", NL, CR}

\* C22: sanitize(s) is s without any occurrence of the listed characters,
\* the other characters kept in their order; it is '' for an input that is
\* no string; its output holds none of the listed characters; and
\* sanitizing the output again changes nothing.
C22_StripsAndIsIdempotent ==
  secFn = "sanitize" =>
    IF secArg.type # "string" THEN secOut = <<>>
    ELSE /\ secOut = SelectSeq(secArg.str, LAMBDA c : c \notin Stripped)
         /\ \A i \in 1..Len(secOut) : secOut[i] \notin Stripped
         /\ sanitizeValue(Str(secOut)) = secOut

\* C22 witness: two listed characters were removed from around and between
\* two letters, which kept their order
C22_Witness ==
  /\ secFn = "sanitize"
  /\ secArg = Str(<<";", "b", "$">>)
  /\ secOut = <<"b">>

\* C22 witness of an input that is no string
C22_WitnessNoString ==
  /\ secFn = "sanitize"
  /\ secArg = Undefined
  /\ secOut = <<>>
\* C23: after any sequence of connect, connectToFolder, connectTerminal
\* and reconnect the status bar shows the vessel connected last:
\* StatusBarManager's lastConnection has the host, the user and the port of
\* the head of the recent list, which ssharbor.reconnect uses.
C23_StatusBarShowsLast ==
  IF recent = <<>> THEN statusBar = <<>>
  ELSE /\ statusBar # <<>>
       /\ statusBar[1].host = recent[1].host
       /\ statusBar[1].user = recent[1].user
       /\ statusBar[1].port = recent[1].port
-----------------------------------------------------------------------------
(* ConfigManager: the recent connections                                   *)

RecentConnection(host, vesselName) ==
  [host |-> host, user |-> <<"u">>, port |-> 22, identityFile |-> <<>>,
   fleetName |-> <<"a">>, vesselName |-> vesselName]

\* a recent.json left by five connections made under the default setting
SavedRecent ==
  <<RecentConnection(<<"e">>, <<"a">>), RecentConnection(<<"d">>, <<"a">>),
    RecentConnection(<<"c">>, <<"a">>), RecentConnection(<<"b">>, <<"a">>),
    RecentConnection(<<"a">>, <<"a">>)>>

\* the connections added: two of the saved ones, a new one, and the vessel
\* b that has the host, the user and the port of the saved vessel a
RecentConnections ==
  {RecentConnection(<<"a">>, <<"a">>), RecentConnection(<<"b">>, <<"a">>),
   RecentConnection(<<"f">>, <<"a">>), RecentConnection(<<"a">>, <<"b">>)}

\* the values of ssharbor.maxRecentConnections, a number of settings.json
MaxRecentSettings == {-1, 0, 1, 2, maxRecentConnections}

AddRecent ==
  /\ nOps < MaxOps
  /\ \E connection \in RecentConnections :
       /\ recent' = addRecent(recent, connection, maxRecent)
       /\ lastOp' = [name |-> "addRecent", connection |-> connection]
  /\ nOps' = nOps + 1
  /\ UNCHANGED <<maxRecent, configFile, configEvents, pendingWatch>>
  /\ UNCHANGED <<harbor, vesselPaths, statusBar, written, terminalSent, nConnects>>

\* ConfigManager.getLastConnection
getLastConnection == IF Len(recent) > 0 THEN <<recent[1]>> ELSE <<>>

InitRecent ==
  /\ recent \in {<<>>, SavedRecent}
  /\ maxRecent \in MaxRecentSettings
  /\ harbor = <<>> /\ vesselPaths = <<>> /\ statusBar = <<>>
  /\ written = {} /\ terminalSent = {} /\ nConnects = 0
  /\ configFile = [kind |-> "absent"] /\ configEvents = 0 /\ pendingWatch = FALSE
  /\ lastOp = NoOp /\ nOps = 0
  /\ SSHIdle /\ CmdIdle /\ AliasIdle /\ SecIdle /\ CascadeIdle /\ ProcIdle

NextRecent ==
  AddRecent /\ UNCHANGED <<sshVars, cmdVars, aliasVars, secVars, cascadeVars, procVars>>

SpecRecent == InitRecent /\ [][NextRecent]_vars

NoTwoSameVessel(list) ==
  \A i, j \in 1..Len(list) :
    (/\ list[i].host = list[j].host /\ list[i].user = list[j].user
     /\ list[i].port = list[j].port) => i = j

\* C24 as stated: after any sequence of addRecent calls the recent list
\* holds at most maxRecentConnections entries, no two entries have the same
\* host, user and port, and the connection added last is at the head, so
\* getLastConnection returns it.
C24_BoundedUniqueNewestFirst ==
  lastOp.name = "addRecent" =>
    /\ Len(recent) <= maxRecent
    /\ NoTwoSameVessel(recent)
    /\ getLastConnection = <<lastOp.connection>>

\* C24 amended: no two entries have the same host, user and port; when
\* maxRecentConnections is 1 or more the list holds at most that many
\* entries and getLastConnection returns the connection added last; when
\* it is 0 the list is empty and getLastConnection returns null.
C24_BoundedUniqueNewestFirstForPositiveLimit ==
  lastOp.name = "addRecent" =>
    /\ NoTwoSameVessel(recent)
    /\ maxRecent >= 1 =>
         /\ Len(recent) <= maxRecent
         /\ getLastConnection = <<lastOp.connection>>
    /\ maxRecent = 0 => (recent = <<>> /\ getLastConnection = <<>>)

\* C24 witness: a sixth vessel was added to a list of five, which holds
\* five entries with the new one first
C24_Witness ==
  /\ lastOp.name = "addRecent"
  /\ lastOp.connection = RecentConnection(<<"f">>, <<"a">>)
  /\ maxRecent = maxRecentConnections
  /\ Len(recent) = maxRecentConnections
  /\ recent[1] = RecentConnection(<<"f">>, <<"a">>)
  /\ recent[maxRecentConnections] = RecentConnection(<<"b">>, <<"a">>)
-----------------------------------------------------------------------------
(* ConfigManager: harbor.json                                              *)

\* a vessel and a fleet as harbor.json holds them; a flag that is absent is
\* "undefined"
StoredVessel(name, host) == [name |-> name, host |-> host, favorite |-> "undefined"]
StoredFleet(name, vessels) == [name |-> name, collapsed |-> "undefined", vessels |-> vessels]

Absent == [kind |-> "absent"]
Corrupted == [kind |-> "corrupted"]
Json(schema, fleets) == [kind |-> "json", schema |-> schema, fleets |-> fleets]

\* ConfigManager.loadConfig: no fleets when the file is missing or JSON.parse
\* throws
loadConfig(file) ==
  IF file.kind = "json" THEN [schema |-> file.schema, fleets |-> file.fleets]
  ELSE [schema |-> FALSE, fleets |-> <<>>]

\* the file saveConfig and saveConfigSilent write: the config with $schema
serialized(config) == Json(TRUE, config.fleets)

\* config.fleets.find((f) => f.name === fleetName): its index, 0 when undefined
findFleet(fleets, fleetName) ==
  IF \E i \in 1..Len(fleets) : fleets[i].name = fleetName
  THEN CHOOSE i \in 1..Len(fleets) :
         /\ fleets[i].name = fleetName
         /\ \A j \in 1..(i - 1) : fleets[j].name # fleetName
  ELSE 0

\* fleet.vessels.find((v) => v.host === vesselHost): its index, 0 when undefined
findVessel(vessels, vesselHost) ==
  IF \E i \in 1..Len(vessels) : vessels[i].host = vesselHost
  THEN CHOOSE i \in 1..Len(vessels) :
         /\ vessels[i].host = vesselHost
         /\ \A j \in 1..(i - 1) : vessels[j].host # vesselHost
  ELSE 0

\* the file is written and _onConfigChange fires; the watcher of the file
\* has a change to report
SaveConfig(config) ==
  /\ configFile' = serialized(config)
  /\ configEvents' = configEvents + 1
  /\ pendingWatch' = TRUE

\* the file is written and _onConfigChange does not fire
SaveConfigSilent(config) ==
  /\ configFile' = serialized(config)
  /\ pendingWatch' = TRUE
  /\ UNCHANGED configEvents

NothingSaved == UNCHANGED <<configFile, configEvents, pendingWatch>>

\* the record of a call and of the state it started in
Did(name, args, threw) ==
  /\ nOps < MaxOps
  /\ nOps' = nOps + 1
  /\ lastOp' = [name |-> name, args |-> args, threw |-> threw,
                before |-> configFile, eventsBefore |-> configEvents,
                pendingBefore |-> pendingWatch]
  /\ UNCHANGED maxRecent
  /\ UNCHANGED connectVars

FleetNameArgs == {<<"a">>, <<"x">>}
HostArgs == {<<"h">>, <<"g">>}

AddFleet ==
  \E fleet \in {StoredFleet(<<"c">>, <<>>)} :
    LET config == loadConfig(configFile) IN
    /\ SaveConfig([config EXCEPT !.fleets = Append(@, fleet)])
    /\ Did("addFleet", [fleet |-> fleet], FALSE)

RemoveFleet ==
  \E fleetName \in FleetNameArgs :
    LET config == loadConfig(configFile) IN
    /\ SaveConfig([config EXCEPT !.fleets =
                     filterSeq(@, {f \in Range(@) : f.name # fleetName})])
    /\ Did("removeFleet", [fleetName |-> fleetName], FALSE)

AddVessel ==
  \E fleetName \in FleetNameArgs : \E vessel \in {StoredVessel(<<"db">>, <<"h">>)} :
    LET config == loadConfig(configFile)
        f == findFleet(config.fleets, fleetName)
    IN /\ IF f = 0 THEN NothingSaved
          ELSE SaveConfig([config EXCEPT !.fleets[f].vessels = Append(@, vessel)])
       /\ Did("addVessel", [fleetName |-> fleetName, vessel |-> vessel], f = 0)

\* ConfigManager.removeVessel(fleetName, vesselHost)
removeVessel(config, fleetName, vesselHost) ==
  LET f == findFleet(config.fleets, fleetName) IN
  [config EXCEPT !.fleets[f].vessels =
     filterSeq(@, {v \in Range(@) : v.host # vesselHost})]

\* the tree items a vessel is removed by: the vessels of the file, and an
\* item of a fleet that is no longer there
VesselItems ==
  LET fleets == loadConfig(configFile).fleets IN
  {[fleetName |-> fleets[f].name, vessel |-> fleets[f].vessels[v], f |-> f, v |-> v] :
     <<f, v>> \in {<<f, v>> \in (1..Len(fleets)) \X (1..2) : v <= Len(fleets[f].vessels)}}
    \cup {[fleetName |-> <<"x">>, vessel |-> StoredVessel(<<"web">>, <<"h">>),
           f |-> 0, v |-> 0]}

\* the command ssharbor.removeVessel on a tree item, confirmed
RemoveVessel ==
  \E item \in VesselItems :
    LET config == loadConfig(configFile)
        f == findFleet(config.fleets, item.fleetName)
    IN /\ IF f = 0 THEN NothingSaved
          ELSE SaveConfig(removeVessel(config, item.fleetName, item.vessel.host))
       /\ Did("removeVessel", item, f = 0)

ToggleFavorite ==
  \E fleetName \in FleetNameArgs : \E vesselHost \in HostArgs :
    LET config == loadConfig(configFile)
        f == findFleet(config.fleets, fleetName)
        v == IF f = 0 THEN 0 ELSE findVessel(config.fleets[f].vessels, vesselHost)
    IN /\ IF v = 0 THEN NothingSaved
          ELSE SaveConfig([config EXCEPT !.fleets[f].vessels[v].favorite =
                             IF @ = "true" THEN "false" ELSE "true"])
       /\ Did("toggleFavorite", [fleetName |-> fleetName, vesselHost |-> vesselHost],
              v = 0)

\* treeView.onDidCollapseElement and onDidExpandElement
SetFleetCollapsed ==
  \E fleetName \in FleetNameArgs : \E collapsed \in {"true", "false"} :
    LET config == loadConfig(configFile)
        f == findFleet(config.fleets, fleetName)
    IN /\ IF f = 0 THEN NothingSaved
          ELSE SaveConfigSilent([config EXCEPT !.fleets[f].collapsed = collapsed])
       /\ Did("setFleetCollapsed", [fleetName |-> fleetName, collapsed |-> collapsed],
              FALSE)

\* the watcher registered by watchConfig reports a change of the file:
\* onDidChange or onDidCreate fires _onConfigChange
WatcherReports ==
  /\ pendingWatch
  /\ pendingWatch' = FALSE
  /\ configEvents' = configEvents + 1
  /\ lastOp' = [name |-> "watcher"]
  /\ UNCHANGED <<configFile, maxRecent, nOps>>
  /\ UNCHANGED connectVars

\* the files the extension starts with: none, one that JSON.parse rejects,
\* and configs written by hand or by the extension
SavedFleets ==
  {<<>>,
   <<StoredFleet(<<"a">>, <<StoredVessel(<<"web">>, <<"h">>)>>)>>,
   <<StoredFleet(<<"a">>, <<StoredVessel(<<"web">>, <<"h">>),
                             StoredVessel(<<"db">>, <<"h">>)>>)>>,
   <<StoredFleet(<<"a">>, <<StoredVessel(<<"web">>, <<"h">>),
                             StoredVessel(<<"db">>, <<"g">>)>>),
     StoredFleet(<<"b">>, <<StoredVessel(<<"web">>, <<"h">>)>>)>>}

HarborFiles ==
  {Absent, Corrupted} \cup {Json(schema, fleets) : schema \in BOOLEAN, fleets \in SavedFleets}

InitConfig ==
  /\ configFile \in HarborFiles
  /\ recent \in {<<>>, <<RecentConnection(<<"h">>, <<"web">>)>>}
  /\ maxRecent = maxRecentConnections
  /\ configEvents = 0 /\ pendingWatch = FALSE
  /\ lastOp = NoOp /\ nOps = 0
  /\ harbor = <<>> /\ vesselPaths = <<>> /\ statusBar = <<>>
  /\ written = {} /\ terminalSent = {} /\ nConnects = 0
  /\ SSHIdle /\ CmdIdle /\ AliasIdle /\ SecIdle /\ CascadeIdle /\ ProcIdle

NextConfig ==
  \/ AddFleet /\ UNCHANGED <<sshVars, cmdVars, aliasVars, secVars, cascadeVars, procVars>>
  \/ RemoveFleet /\ UNCHANGED <<sshVars, cmdVars, aliasVars, secVars, cascadeVars, procVars>>
  \/ AddVessel /\ UNCHANGED <<sshVars, cmdVars, aliasVars, secVars, cascadeVars, procVars>>
  \/ RemoveVessel /\ UNCHANGED <<sshVars, cmdVars, aliasVars, secVars, cascadeVars, procVars>>
  \/ ToggleFavorite /\ UNCHANGED <<sshVars, cmdVars, aliasVars, secVars, cascadeVars, procVars>>
  \/ SetFleetCollapsed /\ UNCHANGED <<sshVars, cmdVars, aliasVars, secVars, cascadeVars, procVars>>
  \/ WatcherReports /\ UNCHANGED <<sshVars, cmdVars, aliasVars, secVars, cascadeVars, procVars>>

SpecConfig == InitConfig /\ [][NextConfig]_vars

ConfigOps ==
  {"addFleet", "removeFleet", "addVessel", "removeVessel", "toggleFavorite",
   "setFleetCollapsed"}

\* C25: while harbor.json exists and cannot be parsed, no ConfigManager
\* operation (addFleet, removeFleet, addVessel, removeVessel,
\* toggleFavorite, setFleetCollapsed) overwrites it: the content after the
\* operation is the content before it.
C25_CorruptedFileKept ==
  (lastOp.name \in ConfigOps /\ lastOp.before = Corrupted) => configFile = Corrupted
\* the fleets of the file hold no vessel
NoVesselLeft == \A f \in Range(loadConfig(configFile).fleets) : f.vessels = <<>>

\* C26: in every state reached by a removeFleet or removeVessel after
\* which no fleet contains any vessel, the recent-connections list is
\* empty.
C26_RecentClearedWithLastVessel ==
  (/\ lastOp.name \in {"removeFleet", "removeVessel"}
   /\ ~lastOp.threw
   /\ NoVesselLeft)
    => recent = <<>>

\* the fleets with the collapsed flag of every fleet called fleetName left out
WithoutCollapsedOf(fleets, fleetName) ==
  [i \in 1..Len(fleets) |->
     IF fleets[i].name = fleetName THEN [fleets[i] EXCEPT !.collapsed = "undefined"]
     ELSE fleets[i]]

\* C28: setFleetCollapsed changes only the collapsed flag of the named
\* fleet and causes no onConfigChange event while the watcher registered
\* by watchConfig is active: none is fired and none is left to be fired;
\* for an unknown fleet name nothing is written.
C28_CollapseIsSilent ==
  lastOp.name = "setFleetCollapsed" =>
    LET before == loadConfig(lastOp.before)
        after == loadConfig(configFile)
    IN /\ WithoutCollapsedOf(after.fleets, lastOp.args.fleetName)
            = WithoutCollapsedOf(before.fleets, lastOp.args.fleetName)
       /\ configEvents = lastOp.eventsBefore
       /\ pendingWatch = lastOp.pendingBefore
       /\ findFleet(before.fleets, lastOp.args.fleetName) = 0
            => configFile = lastOp.before

\* arr without its element at index i
RemoveAt(arr, i) == SubSeq(arr, 1, i - 1) \o SubSeq(arr, i + 1, Len(arr))

\* C29: removeVessel removes exactly the selected vessel: every other
\* vessel of the fleet and every vessel of every other fleet is still in
\* the configuration, unchanged and in the same order; when the fleet does
\* not exist an error is raised and nothing is written.
C29_ExactlySelectedRemoved ==
  lastOp.name = "removeVessel" =>
    LET before == loadConfig(lastOp.before)
        after == loadConfig(configFile)
        item == lastOp.args
    IN IF findFleet(before.fleets, item.fleetName) = 0
       THEN lastOp.threw /\ configFile = lastOp.before
       ELSE /\ ~lastOp.threw
            /\ after.fleets =
                 [before.fleets EXCEPT ![item.f].vessels = RemoveAt(@, item.v)]
-----------------------------------------------------------------------------
(* ConfigManager: the saved paths of the vessels                           *)

FolderPath(n) == <<"/", ToString(n)>>

VesselKeyArgs ==
  {[host |-> <<"h">>, user |-> <<"u">>, port |-> 22],
   [host |-> <<"g">>, user |-> <<"u">>, port |-> 22]}

\* a vessel-paths.json in which u@h:22 has the ten paths /1 to /10
SavedPaths ==
  [k \in {getVesselKey(<<"h">>, <<"u">>, 22)} |->
     [i \in 1..MaxVesselPaths |-> FolderPath(i)]]

\* the paths added and removed: the first and the last of the saved ones
\* and two new ones
PathArgs ==
  {FolderPath(1), FolderPath(MaxVesselPaths), FolderPath(MaxVesselPaths + 1),
   FolderPath(MaxVesselPaths + 2)}

\* the record of a call: the storage before it, and for every key the path
\* added to it last
PathOp(name, vessel, folderPath, added) ==
  [name |-> name, key |-> getVesselKey(vessel.host, vessel.user, vessel.port),
   path |-> folderPath, before |-> vesselPaths, added |-> added]

AddVesselPath ==
  /\ nOps < MaxOps
  /\ \E vessel \in VesselKeyArgs : \E folderPath \in PathArgs :
       LET key == getVesselKey(vessel.host, vessel.user, vessel.port) IN
       /\ vesselPaths' = addVesselPath(vesselPaths, vessel.host, vessel.user,
                                       vessel.port, folderPath)
       /\ lastOp' = PathOp("addVesselPath", vessel, folderPath,
                           [k \in (DOMAIN lastOp.added) \cup {key} |->
                              IF k = key THEN folderPath ELSE lastOp.added[k]])
  /\ nOps' = nOps + 1
  /\ UNCHANGED <<maxRecent, configFile, configEvents, pendingWatch>>
  /\ UNCHANGED <<harbor, recent, statusBar, written, terminalSent, nConnects>>

RemoveVesselPath ==
  /\ nOps < MaxOps
  /\ \E vessel \in VesselKeyArgs : \E folderPath \in PathArgs :
       /\ vesselPaths' = removeVesselPath(vesselPaths, vessel.host, vessel.user,
                                          vessel.port, folderPath)
       /\ lastOp' = PathOp("removeVesselPath", vessel, folderPath, lastOp.added)
  /\ nOps' = nOps + 1
  /\ UNCHANGED <<maxRecent, configFile, configEvents, pendingWatch>>
  /\ UNCHANGED <<harbor, recent, statusBar, written, terminalSent, nConnects>>

InitPaths ==
  /\ vesselPaths \in {<<>>, SavedPaths}
  /\ lastOp = [name |-> "none",
               added |-> [k \in DOMAIN vesselPaths |-> vesselPaths[k][1]]]
  /\ nOps = 0
  /\ maxRecent = maxRecentConnections
  /\ configFile = Absent /\ configEvents = 0 /\ pendingWatch = FALSE
  /\ harbor = <<>> /\ recent = <<>> /\ statusBar = <<>>
  /\ written = {} /\ terminalSent = {} /\ nConnects = 0
  /\ SSHIdle /\ CmdIdle /\ AliasIdle /\ SecIdle /\ CascadeIdle /\ ProcIdle

NextPaths ==
  \/ AddVesselPath /\ UNCHANGED <<sshVars, cmdVars, aliasVars, secVars, cascadeVars, procVars>>
  \/ RemoveVesselPath /\ UNCHANGED <<sshVars, cmdVars, aliasVars, secVars, cascadeVars, procVars>>

SpecPaths == InitPaths /\ [][NextPaths]_vars

\* every list is without a duplicate and has at most 10 entries
ListsBoundedAndUnique ==
  \A k \in DOMAIN vesselPaths :
    /\ Len(vesselPaths[k]) <= 10
    /\ \A i, j \in 1..Len(vesselPaths[k]) :
         vesselPaths[k][i] = vesselPaths[k][j] => i = j

\* the last call left the lists of the other keys as they were
OtherKeysUnchanged ==
  lastOp.name # "none" =>
    /\ DOMAIN vesselPaths \ {lastOp.key} = DOMAIN lastOp.before \ {lastOp.key}
    /\ \A k \in DOMAIN lastOp.before \ {lastOp.key} :
         vesselPaths[k] = lastOp.before[k]

\* C27 as stated: after any sequence of addVesselPath and removeVesselPath
\* calls every list has no duplicate and at most 10 entries, the path
\* added last for a key is first in the list of that key, and a call on
\* one key leaves the lists of the other keys unchanged.
C27_LastAddedFirst ==
  /\ ListsBoundedAndUnique
  /\ \A k \in DOMAIN lastOp.added :
       /\ k \in DOMAIN vesselPaths
       /\ vesselPaths[k] # <<>>
       /\ vesselPaths[k][1] = lastOp.added[k]
  /\ OtherKeysUnchanged

\* C27 amended: every list has no duplicate and at most 10 entries; right
\* after addVesselPath the added path is first in the list of its key;
\* removeVesselPath takes the path out of the list, also when it was the
\* one added last, and keeps the others in their order; a call on one key
\* leaves the lists of the other keys unchanged.
C27_AddedFirstUntilRemoved ==
  /\ ListsBoundedAndUnique
  /\ lastOp.name = "addVesselPath" =>
       /\ lastOp.key \in DOMAIN vesselPaths
       /\ vesselPaths[lastOp.key] # <<>>
       /\ vesselPaths[lastOp.key][1] = lastOp.path
  /\ (lastOp.name = "removeVesselPath" /\ lastOp.key \in DOMAIN lastOp.before) =>
       vesselPaths[lastOp.key] =
         SelectSeq(lastOp.before[lastOp.key], LAMBDA q : q # lastOp.path)
  /\ OtherKeysUnchanged

\* C27 witness: an eleventh path was added to the ten of u@h:22, which has
\* ten paths with the new one first and without the oldest
C27_Witness ==
  /\ lastOp.name = "addVesselPath"
  /\ lastOp.path = FolderPath(MaxVesselPaths + 1)
  /\ lastOp.key \in DOMAIN lastOp.before
  /\ Len(lastOp.before[lastOp.key]) = MaxVesselPaths
  /\ Len(vesselPaths[lastOp.key]) = MaxVesselPaths
  /\ vesselPaths[lastOp.key][1] = FolderPath(MaxVesselPaths + 1)
  /\ \A i \in 1..MaxVesselPaths : vesselPaths[lastOp.key][i] # FolderPath(MaxVesselPaths)
-----------------------------------------------------------------------------
(* connect and connectToFolder running concurrently in one extension host  *)

Procs == 1..MaxProcs

\* the vessels connected to: one per command, with different names and so
\* different aliases
VesselLetters == <<"a", "b", "c">>
ProcInfo(p) ==
  Info(<<"a">>, <<VesselLetters[p]>>, <<VesselLetters[p]>>, <<"u">>, 22, <<>>)

\* the initial ~/.ssh/config texts of the concurrent commands: no text or
\* one chunk, and a text with the marker and a line after it
ShortTexts == TextsOf(1) \cup {<<"x", NL, MARKER, NL, "x", NL>>}

\* the text the command read when it was called, in place of the text of
\* the file when ensureSSHConfigEntry runs
configReadAtCall(p) == procs[p].seen

\* fs.readFileSync(sshConfigPath) in ensureSSHConfigEntry
configRead(p) == sshConfig

\* the commands between their first and their last step, other than p
InFlight(p) == {q \in Procs \ {p} : procs[q].pc \in {"picking", "opening"}}

\* ensureSSHConfigEntry(info) within command p, which goes on to await
\* vscode.openFolder for selectedPath
EnsureThenOpen(p, selectedPath) ==
  /\ prevConfig' = sshConfig
  /\ sshConfig' = upsertStanza(configRead(p), ProcInfo(p))
  /\ lastInfo' = ProcInfo(p)
  /\ upserted' = upserted \cup {generateSSHConfigAlias(ProcInfo(p))}
  /\ nCalls' = nCalls + 1
  /\ written' = written \cup {ProcInfo(p)}
  /\ procs' = [procs EXCEPT ![p].pc = "opening", ![p].path = selectedPath,
                             ![p].ensured = TRUE, ![p].during = InFlight(p)]

\* connect up to its first await: showQuickPick when the vessel has saved
\* paths, vscode.openFolder when it has none
ConnectCalled(p) ==
  /\ procs[p].cmd = "connect"
  /\ procs[p].pc = "called"
  /\ IF getVesselSavedPaths(ProcInfo(p).host, ProcInfo(p).user, ProcInfo(p).port) # <<>>
     THEN /\ procs' = [procs EXCEPT ![p].pc = "picking"]
          /\ UNCHANGED <<sshVars, written>>
     ELSE EnsureThenOpen(p, homePathOf(ProcInfo(p)))
  /\ UNCHANGED <<harbor, recent, vesselPaths, statusBar, terminalSent, nConnects>>

\* connect after showQuickPick (and showInputBox) resolved
ConnectPicked(p) ==
  /\ procs[p].cmd = "connect"
  /\ procs[p].pc = "picking"
  /\ \E choice \in PickerChoices(ProcInfo(p)) :
       IF choice.kind = "cancel"
       THEN /\ procs' = [procs EXCEPT ![p].pc = "done"]
            /\ UNCHANGED <<sshVars, written>>
       ELSE EnsureThenOpen(p, choice.path)
  /\ UNCHANGED <<harbor, recent, vesselPaths, statusBar, terminalSent, nConnects>>

\* connectToFolder up to its await of vscode.openFolder
ConnectToFolderCalled(p) ==
  /\ procs[p].cmd = "connectToFolder"
  /\ procs[p].pc = "called"
  /\ \E folderPath \in {<<"/", "srv">>} : EnsureThenOpen(p, folderPath)
  /\ UNCHANGED <<harbor, recent, vesselPaths, statusBar, terminalSent, nConnects>>

\* the rest of either command after vscode.openFolder resolved
FolderOpened(p) ==
  LET info == ProcInfo(p) IN
  /\ procs[p].pc = "opening"
  /\ vesselPaths' =
       IF procs[p].cmd = "connectToFolder" \/ procs[p].path # homePathOf(info)
       THEN addVesselPath(vesselPaths, info.host, info.user, info.port, procs[p].path)
       ELSE vesselPaths
  /\ recent' = addRecent(recent, RecentOf(info), maxRecentConnections)
  /\ statusBar' = IF procs[p].cmd = "connect" THEN <<RecentOf(info)>> ELSE statusBar
  /\ procs' = [procs EXCEPT ![p].pc = "done"]
  /\ UNCHANGED <<sshVars, harbor, written, terminalSent, nConnects>>

\* the commands were invoked one after the other without waiting for them:
\* vessel a has a saved path, so connect to it shows the picker
InitConcurrent ==
  /\ sshConfig \in ShortTexts
  /\ prevConfig = sshConfig
  /\ lastInfo = NoInfo /\ upserted = {} /\ nCalls = 0
  /\ procs \in [Procs -> {[cmd |-> c, pc |-> "called", path |-> <<>>, seen |-> sshConfig,
                            ensured |-> FALSE, during |-> {}] :
                             c \in {"connect", "connectToFolder"}}]
  /\ vesselPaths =
       [k \in {getVesselKey(ProcInfo(1).host, ProcInfo(1).user, ProcInfo(1).port)} |->
          <<<<"/", "srv">>>>]
  /\ harbor = <<>> /\ recent = <<>> /\ statusBar = <<>>
  /\ written = {} /\ terminalSent = {} /\ nConnects = 0
  /\ CmdIdle /\ AliasIdle /\ SecIdle /\ CascadeIdle /\ StoreIdle

NextConcurrent ==
  \E p \in Procs :
    \/ ConnectCalled(p) /\ UNCHANGED <<cmdVars, aliasVars, secVars, cascadeVars, storeVars>>
    \/ ConnectPicked(p) /\ UNCHANGED <<cmdVars, aliasVars, secVars, cascadeVars, storeVars>>
    \/ ConnectToFolderCalled(p) /\ UNCHANGED <<cmdVars, aliasVars, secVars, cascadeVars, storeVars>>
    \/ FolderOpened(p) /\ UNCHANGED <<cmdVars, aliasVars, secVars, cascadeVars, storeVars>>

SpecConcurrent == InitConcurrent /\ [][NextConcurrent]_vars

\* the text holds a stanza of the vessel: a Host line of its alias with
\* the lines rendered from its fields
HasStanza(text, info) ==
  LET ls == Lines(text) IN
  \E i \in HostLineIndices(ls, generateSSHConfigAlias(info)) :
    BlockAt(ls, i) = RenderedLines(info)

\* C30: in every interleaving of connect and connectToFolder commands
\* for vessels with different aliases, the SSH config text holds the
\* stanza of every command that has passed ensureSSHConfigEntry, from then
\* on and so when all commands have ended: no stanza is lost; and it is
\* the one Host line of the alias when the text the commands started from
\* had none.
C30_NoStanzaLost ==
  \A p \in Procs :
    procs[p].ensured =>
      LET alias == generateSSHConfigAlias(ProcInfo(p)) IN
      /\ HasStanza(sshConfig, ProcInfo(p))
      /\ ~includes(procs[p].seen, hostLine(alias))
           => Cardinality(HostLineIndices(Lines(sshConfig), alias)) = 1

\* C30 witness: connect to vessel a waited in its picker while
\* connectToFolder wrote the stanza of vessel b and waited for its folder,
\* then wrote its own stanza; both commands have ended
C30_Witness ==
  /\ procs[1].cmd = "connect" /\ procs[2].cmd = "connectToFolder"
  /\ procs[1].pc = "done" /\ procs[2].pc = "done"
  /\ procs[1].ensured /\ procs[2].ensured
  /\ procs[1].during = {2}
  /\ procs[2].during = {1}
  /\ HasStanza(sshConfig, ProcInfo(1)) /\ HasStanza(sshConfig, ProcInfo(2))
====
